---- MODULE Spec2Model ----
(***************************************************************************)
(* The provider registry, the model resolver and the facade of litellmjs   *)
(* (class LiteLLM and the proxy adapter that createProxy builds).          *)
(*                                                                         *)
(* Strings are sequences of tokens.  A token stands for a fixed run of     *)
(* characters ("gpt-", "openai", "/" ...); no token is a prefix of         *)
(* another, so splitting on "/", startsWith and equality of the JavaScript *)
(* strings coincide with the same operations on the token sequences.       *)
(***************************************************************************)
EXTENDS Naturals, Sequences, FiniteSets, TLC

VARIABLES
    providers,      \* this.providers: own keys in insertion order
    proxies,        \* this.proxies: array of proxy configurations
    lastCall,       \* the last synchronous query of the registry: [fn, arg]
    parseRet,       \* what parseModelString returned for lastCall
    resolveRet,     \* what getProviderForModel returned for lastCall
    call,           \* the facade call in flight: [op, options]
    status,         \* where that call stands
    target,         \* what the call's getProviderForModel returned
    adapterCalls,   \* calls the facade made on adapters: [adapter, method, options]
    sent,           \* request bodies a proxy adapter handed to fetch
    adapterResult,  \* what the adapter's completion promise settled with
    result,         \* value returned / error thrown to the caller
    adapterYielded, \* chunks the adapter's generator has yielded
    yielded,        \* chunks the facade's generator has yielded
    decoder,        \* whose _processChunk is applied: "LiteLLM", "OpenAI", "Anthropic"
    lines,          \* the lines of the text fragment handed to _processChunk
    decoded,        \* the objects _processChunk gave back for it
    aCall,          \* the adapter call in flight: [adapter, method, body]
    gen,            \* where the adapter's completion / generator body stands
    pulling,        \* the consumer has a next() pending
    pulls,          \* next() calls made by the consumer
    fetches,        \* requests handed to the transport
    response,       \* what the transport answered
    handle,         \* the stream reader / stream of the response body
    received,       \* the fragments read from the transport so far
    buffer,         \* chunks decoded from the last fragment, not yet yielded
    delivered,      \* chunks yielded to the consumer
    outcome,        \* value returned or error thrown by the adapter
    aborted,        \* the caller's AbortController has fired
    closed,         \* the consumer has called return()
    ended,          \* the transport has reported the end of the stream
    calls,          \* per facade call in flight: its locals [op, options, status, target, result, yielded]
    backend,        \* per facade call: what its caller asked and what its adapter was given and gave
    tAdapter,       \* the adapter whose _transformOptions is applied
    tDefaults,      \* its this.defaultParams
    tOptions,       \* the options of the request
    tBody,          \* the request body _transformOptions produced
    vResponse,      \* a response of the Anthropic API
    vConverted,     \* what _convertResponseToOpenAIFormat made of it
    mRequest,       \* the messages, tools and functions of a request to AnthropicProvider
    mBody,          \* what _transformOptions made of them, or what it threw
    sEvents,        \* the decoded events of an Anthropic stream, not yet converted
    sChunks,        \* the chunks _convertStreamChunkToOpenAIFormat made so far
    heap,           \* the request objects alive during a facade call, by reference
    cCall           \* that call: the caller's object, the adapter, and where it stands

registry == <<providers, proxies>>
query    == <<lastCall, parseRet, resolveRet>>
facade   == <<call, status, target, adapterCalls, sent, adapterResult, result,
              adapterYielded, yielded>>
decoding == <<decoder, lines, decoded>>
adapting == <<aCall, gen, pulling, pulls, fetches, response, handle, received,
              buffer, delivered, outcome, aborted, closed, ended>>
concurrent == <<calls, backend>>
converting == <<tAdapter, tDefaults, tOptions, tBody, vResponse, vConverted>>
translating == <<mRequest, mBody, sEvents, sChunks, heap, cCall>>
\* what the registry and the facade never touch
others   == <<decoding, adapting, concurrent, converting, translating>>
vars     == <<providers, proxies, lastCall, parseRet, resolveRet, call, status,
              target, adapterCalls, sent, adapterResult, result, adapterYielded,
              yielded, decoder, lines, decoded, aCall, gen, pulling, pulls,
              fetches, response, handle, received, buffer, delivered, outcome,
              aborted, closed, ended, calls, backend, tAdapter, tDefaults,
              tOptions, tBody, vResponse, vConverted, mRequest, mBody, sEvents,
              sChunks, heap, cCall>>

----------------------------------------------------------------------------
(* Bounds *)

\* longest model identifier (in tokens) handed to getProviderForModel
MaxLen == 3
\* longest string (in tokens) handed to parseModelString on its own
MaxParseLen == 4
\* most proxies registered
MaxProxies == 2
\* most chunks one adapter stream yields
MaxChunks == 2
\* most lines in one text fragment handed to a decoder
MaxLines == 3
\* most fragments the transport delivers for one response
MaxFragments == 2
MaxBlocks == 2
MaxMessages == 3
MaxEvents == 2

----------------------------------------------------------------------------
(* Strings *)

Sep == "/"

\* tokens of the model identifiers
Chars == {Sep, "openai", "constructor", "gpt-", "claude-", "text-"}

\* tokens of the strings parseModelString is exercised on
ParseChars == {Sep, "openai", "OpenAI"}

StringsOver(alphabet, n) == UNION {[1..k -> alphabet] : k \in 0..n}

\* JavaScript null / undefined: a value that is no string
Null == <<"<null>">>

\* JavaScript truthiness of a string-or-null value
Truthy(s) == s # Null /\ s # <<>>

\* a || b
Or(a, b) == IF Truthy(a) THEN a ELSE b

\* String.prototype.toLowerCase
LowerTok(t) == IF t = "OpenAI" THEN "openai" ELSE t

toLowerCase(s) == [i \in 1..Len(s) |-> LowerTok(s[i])]

\* String.prototype.startsWith
startsWith(s, prefix) ==
    /\ Len(prefix) <= Len(s)
    /\ SubSeq(s, 1, Len(prefix)) = prefix

\* Array.prototype.includes
includes(arr, x) == \E i \in 1..Len(arr) : arr[i] = x

\* String.prototype.split('/'): the segments between the separators
RECURSIVE split(_)
split(s) ==
    IF \A i \in 1..Len(s) : s[i] # Sep
    THEN <<s>>
    ELSE LET i == CHOOSE j \in 1..Len(s) :
                      s[j] = Sep /\ \A k \in 1..(j - 1) : s[k] # Sep
         IN  <<SubSeq(s, 1, i - 1)>> \o split(SubSeq(s, i + 1, Len(s)))

----------------------------------------------------------------------------
(* parseModelString *)

parseModelStringWide(modelString) ==
    IF ~Truthy(modelString)
    THEN [provider |-> Null, model |-> modelString]
    ELSE LET parts == split(modelString)
         IN  IF Len(parts) >= 2 /\ Truthy(parts[1]) /\ Truthy(parts[2])
             THEN [provider |-> toLowerCase(parts[1]), model |-> parts[2]]
             ELSE [provider |-> Null, model |-> modelString]

\* a parse that consults this.providers and drops an unregistered provider
parseModelStringRegistered(modelString) ==
    LET parts == split(modelString)
    IN  IF /\ Truthy(modelString)
           /\ Len(parts) = 2 /\ Truthy(parts[1]) /\ Truthy(parts[2])
           /\ \E i \in 1..Len(providers) : providers[i] = toLowerCase(parts[1])
        THEN [provider |-> toLowerCase(parts[1]), model |-> parts[2]]
        ELSE IF Truthy(modelString) /\ Len(parts) = 2 /\ Truthy(parts[1]) /\ Truthy(parts[2])
        THEN [provider |-> Null, model |-> parts[2]]
        ELSE [provider |-> Null, model |-> modelString]

parseModelString(modelString) ==
    IF ~Truthy(modelString)
    THEN [provider |-> Null, model |-> modelString]
    ELSE LET parts == split(modelString)
         IN  IF Len(parts) = 2 /\ Truthy(parts[1]) /\ Truthy(parts[2])
             THEN [provider |-> toLowerCase(parts[1]), model |-> parts[2]]
             ELSE [provider |-> Null, model |-> modelString]

----------------------------------------------------------------------------
(* Provider types and the prefix table (types.js) *)

OPENAI == <<"openai">>

ANTHROPIC == <<"anthropic">>

\* MODEL_PREFIXES in the order Object.entries walks it
MODEL_PREFIXES ==
    << [prefix |-> <<"gpt-">>,    providerType |-> OPENAI],
       [prefix |-> <<"claude-">>, providerType |-> ANTHROPIC] >>

----------------------------------------------------------------------------
(* Adapters *)

\* what a lookup or a resolution can yield as "provider"
Adapter(kind, type, index) == [kind |-> kind, type |-> type, index |-> index]

\* null / undefined in a provider position
NoProvider == Adapter("null", <<>>, 0)

\* an instance of OpenAIProvider / AnthropicProvider stored under providers[type]
ProviderAdapter(type) == Adapter("provider", type, 0)

\* the proxyProvider object the i-th createProxy call built
ProxyAdapter(i) == Adapter("proxy", <<>>, i)

\* a property every object literal inherits from Object.prototype: truthy, and
\* neither a Provider nor a proxy (it has no completion / streamCompletion)
InheritedValue(key) == Adapter("inherited", key, 0)

\* the property names of Object.prototype that toLowerCase() leaves unchanged
ObjectPrototypeKeys == {<<"constructor">>, <<"__proto__">>}

IsAdapter(p) == p.kind \in {"provider", "proxy"}

\* OpenAIProvider.supportsModel / AnthropicProvider.supportsModel
supportsModel(type, model) ==
    IF type = OPENAI
    THEN \/ startsWith(model, <<"gpt-">>)
         \/ startsWith(model, <<"text-">>)
         \/ model = <<"dall-e-3">>
    ELSE IF type = ANTHROPIC
    THEN startsWith(model, <<"claude-">>)
    ELSE FALSE

----------------------------------------------------------------------------
(* Registry *)

Min(S) == CHOOSE x \in S : \A y \in S : x <= y

\* this.providers[key], for the object literal created in the constructor
ProvidersGet(key) ==
    IF includes(providers, key) THEN ProviderAdapter(key)
    ELSE IF key \in ObjectPrototypeKeys THEN InheritedValue(key)
    ELSE NoProvider

\* this.providers[providerType] = provider: a new key goes last, a key that is
\* already there keeps its place
ProvidersPut(key) ==
    IF includes(providers, key) THEN providers ELSE Append(providers, key)

\* the types registerProvider has a case for
SupportedTypes == {OPENAI, ANTHROPIC}

\* the wildcard entry of a proxy's models
Star == <<"*">>

registerProxy(proxyConfig) == Append(proxies, proxyConfig)

\* the configuration createProxy registers for `options`, as the n-th proxy
ProxyConfigOf(options, n) ==
    [ name       |-> n,
      models     |-> IF "models" \in options.given THEN options.models ELSE <<Star>>,
      proxyModel |-> IF "proxyModel" \in options.given THEN options.proxyModel ELSE Null,
      provider   |-> ProxyAdapter(n) ]

----------------------------------------------------------------------------
(* Resolution *)

getProviderTypeForModel(model) ==
    LET hits == {i \in 1..Len(MODEL_PREFIXES) :
                     startsWith(model, MODEL_PREFIXES[i].prefix)}
    IN  IF hits = {} THEN Null ELSE MODEL_PREFIXES[Min(hits)].providerType

\* ProxyMatches without the wildcard
ProxyMatchesNoStar(proxy, model, modelString) ==
    \/ includes(proxy.models, model)
    \/ includes(proxy.models, modelString)

\* the condition of the loop in getProxyForModel
ProxyMatches(proxy, model, modelString) ==
    \/ includes(proxy.models, model)
    \/ includes(proxy.models, modelString)
    \/ includes(proxy.models, Star)

\* getProxyForModel returning null
NoProxyResult == [provider |-> NoProvider, actualModel |-> Null]

Max(S) == CHOOSE x \in S : \A y \in S : x >= y

\* getProxyForModel handing on the identifier as it was requested
getProxyForModelRawName(modelString) ==
    LET model == parseModelString(modelString).model
        hits  == {i \in 1..Len(proxies) : ProxyMatches(proxies[i], model, modelString)}
    IN  IF hits = {} THEN NoProxyResult
        ELSE [ provider    |-> proxies[Min(hits)].provider,
               actualModel |-> Or(proxies[Min(hits)].proxyModel, modelString) ]

\* getProxyForModel with the last matching proxy winning
getProxyForModelLastMatch(modelString) ==
    LET model == parseModelString(modelString).model
        hits  == {i \in 1..Len(proxies) : ProxyMatches(proxies[i], model, modelString)}
    IN  IF hits = {} THEN NoProxyResult
        ELSE [ provider    |-> proxies[Max(hits)].provider,
               actualModel |-> Or(proxies[Max(hits)].proxyModel, model) ]

getProxyForModel(modelString) ==
    LET model == parseModelString(modelString).model
        hits  == {i \in 1..Len(proxies) : ProxyMatches(proxies[i], model, modelString)}
    IN  IF hits = {} THEN NoProxyResult
        ELSE [ provider    |-> proxies[Min(hits)].provider,
               actualModel |-> Or(proxies[Min(hits)].proxyModel, model) ]

\* the loop over Object.entries(this.providers) in getProviderForModel
FirstSupporting(model) ==
    LET hits == {i \in 1..Len(providers) : supportsModel(providers[i], model)}
    IN  IF hits = {} THEN NoProvider ELSE ProviderAdapter(providers[Min(hits)])

\* getProviderForModel with the explicit provider tried before the proxies
getProviderForModelExplicitFirst(modelString) ==
    LET parsed           == parseModelString(modelString)
        explicitProvider == parsed.provider
        actualModel      == parsed.model
        proxyResult      == getProxyForModel(modelString)
        name             == Or(actualModel, modelString)
        providerType     == getProviderTypeForModel(name)
    IN  IF Truthy(explicitProvider) /\ ProvidersGet(explicitProvider) # NoProvider
        THEN [provider |-> ProvidersGet(explicitProvider), actualModel |-> actualModel]
        ELSE IF proxyResult # NoProxyResult THEN proxyResult
        ELSE IF Truthy(providerType) /\ ProvidersGet(providerType) # NoProvider
        THEN [provider |-> ProvidersGet(providerType), actualModel |-> name]
        ELSE [provider |-> FirstSupporting(name), actualModel |-> name]

\* getProviderForModel with the prefix table tried before the explicit provider
getProviderForModelPrefixFirst(modelString) ==
    LET parsed           == parseModelString(modelString)
        explicitProvider == parsed.provider
        actualModel      == parsed.model
        proxyResult      == getProxyForModel(modelString)
        name             == Or(actualModel, modelString)
        providerType     == getProviderTypeForModel(name)
    IN  IF proxyResult # NoProxyResult THEN proxyResult
        ELSE IF Truthy(providerType) /\ ProvidersGet(providerType) # NoProvider
        THEN [provider |-> ProvidersGet(providerType), actualModel |-> name]
        ELSE IF Truthy(explicitProvider) /\ ProvidersGet(explicitProvider) # NoProvider
        THEN [provider |-> ProvidersGet(explicitProvider), actualModel |-> actualModel]
        ELSE [provider |-> FirstSupporting(name), actualModel |-> name]

getProviderForModel(modelString) ==
    LET parsed           == parseModelString(modelString)
        explicitProvider == parsed.provider
        actualModel      == parsed.model
        proxyResult      == getProxyForModel(modelString)
        name             == Or(actualModel, modelString)
        providerType     == getProviderTypeForModel(name)
    IN  IF proxyResult # NoProxyResult THEN proxyResult
        ELSE IF Truthy(explicitProvider) /\ ProvidersGet(explicitProvider) # NoProvider
        THEN [provider |-> ProvidersGet(explicitProvider), actualModel |-> actualModel]
        ELSE IF Truthy(providerType) /\ ProvidersGet(providerType) # NoProvider
        THEN [provider |-> ProvidersGet(providerType), actualModel |-> name]
        ELSE [provider |-> FirstSupporting(name), actualModel |-> name]

\* the test `if (!provider)` of completion and streamCompletion
NoProviderFound(resolution) == resolution.provider = NoProvider

----------------------------------------------------------------------------
(* Facade and proxy adapter *)

\* what a call gives back: nothing yet, a value, or an error
Outcome(kind, code, value) == [kind |-> kind, status |-> code, value |-> value]

NoOutcome == Outcome("none", 0, "none")

\* new LiteLLMError(`No provider found for model: ...`, 400)
ProviderNotFoundError == Outcome("LiteLLMError", 400, "No provider found")

\* provider.completion / provider.streamCompletion is not a function
NotAFunction == Outcome("TypeError", 0, "not a function")

\* { model: actualModel }: the caller's other fields forgotten
completionOptionsBare(options, actualModel) ==
    [model |-> actualModel, messages |-> "none", stream |-> "absent"]

\* { ...options, model: actualModel }
completionOptions(options, actualModel) == [options EXCEPT !.model = actualModel]

\* finalOptions of the proxy adapter: { ...completionOptions, model: proxyModel ||
\* completionOptions.model } and, when streaming, stream: true
finalOptions(proxy, options, method) ==
    [options EXCEPT !.model  = Or(proxy.proxyModel, options.model),
                    !.stream = IF method = "streamCompletion" THEN "true" ELSE @]

\* the bodies the adapter hands to fetch when the facade calls it
fetchBodies(adapter, options, method) ==
    IF adapter.kind = "proxy"
    THEN <<finalOptions(proxies[adapter.index], options, method)>>
    ELSE <<>>

\* yield* that loses every chunk
facadeYieldNothing(chunk) == <<>>

\* what the facade's generator yields for a chunk of the adapter's (yield*)
facadeYield(chunk) == <<chunk>>

\* return await provider.completion(completionOptions)
facadeReturn(value) == Outcome("value", 0, value)

----------------------------------------------------------------------------
(* Inputs *)

ModelIds ==
    StringsOver(Chars, MaxLen)
        \cup {<<"OpenAI", Sep, m>> : m \in {"gpt-", "claude-", "text-"}}

ParseInputs == StringsOver(ParseChars, MaxParseLen)

\* the types registerProvider is called with
RegisterTypes == {OPENAI, <<"OpenAI">>, ANTHROPIC, <<"google">>}

\* the options createProxy is called with
ProxyOptions ==
    { [given |-> {}, models |-> <<>>, proxyModel |-> Null],
      [given |-> {"models", "proxyModel"}, models |-> << <<"gpt-">> >>,
       proxyModel |-> <<"deepseek-chat">>],
      [given |-> {"models", "proxyModel"}, models |-> << <<"openai", Sep, "claude-">> >>,
       proxyModel |-> <<>>] }

\* the model identifiers completion / streamCompletion are called with
RequestModels ==
    { <<"gpt-">>, <<"openai", Sep, "gpt-">>, <<"claude-">>,
      <<"openai", Sep, "claude-">>, <<"text-">>, <<"constructor", Sep, "gpt-">>,
      <<"constructor">> }

Requests == {[model |-> m, messages |-> "hello", stream |-> "absent"] : m \in RequestModels}

\* what an adapter's completion resolves with
AdapterValues == {"r1", "r2"}

\* what an adapter's completion or stream fails with (a non-2xx answer)
AdapterError == Outcome("LiteLLMError", 500, "upstream")

\* what an adapter's stream yields
Chunks == {"c1", "c2"}

----------------------------------------------------------------------------
(* State machine *)

NoCall == [fn |-> "none", arg |-> <<>>]

NoParse == [provider |-> Null, model |-> Null]

NoOptions == [model |-> Null, messages |-> "none", stream |-> "absent"]

\* no fragment has been handed to a decoder
InitDecoder ==
    /\ decoder = "none"
    /\ lines = <<>>
    /\ decoded = [done |-> FALSE, objects |-> <<>>]

\* what an adapter returns or throws: kind, HTTP status, data, original cause
AdapterOutcome(kind, code, data, cause) ==
    [kind |-> kind, status |-> code, data |-> data, originalError |-> cause]

NoAdapterOutcome == AdapterOutcome("none", 0, "none", "none")

NoResponse == [kind |-> "none", status |-> 0, json |-> FALSE, text |-> "none"]

\* no adapter has been called
InitAdapter ==
    /\ aCall = [adapter |-> "none", method |-> "none", body |-> "none"]
    /\ gen = "idle"
    /\ pulling = FALSE
    /\ pulls = 0
    /\ fetches = 0
    /\ response = NoResponse
    /\ handle = "none"
    /\ received = <<>>
    /\ buffer = <<>>
    /\ delivered = <<>>
    /\ outcome = NoAdapterOutcome
    /\ aborted = FALSE
    /\ closed = FALSE
    /\ ended = FALSE

\* the facade calls that may be in flight together
CallIds == {"A", "B"}

IdleCall ==
    [op |-> "none", options |-> NoOptions, status |-> "idle", target |-> NoProxyResult,
     result |-> NoOutcome, yielded |-> <<>>]

IdleBackend ==
    [request |-> NoOptions, passed |-> <<>>, chunks |-> <<>>, settled |-> NoOutcome]

\* no facade call has been made
InitConcurrent ==
    /\ calls = [i \in CallIds |-> IdleCall]
    /\ backend = [i \in CallIds |-> IdleBackend]

\* new LiteLLM(): nothing registered, nothing called
InitLiteLLM ==
    /\ providers = <<>>
    /\ proxies = <<>>
    /\ lastCall = NoCall
    /\ parseRet = NoParse
    /\ resolveRet = NoProxyResult
    /\ call = [op |-> "none", options |-> NoOptions]
    /\ status = "idle"
    /\ target = NoProxyResult
    /\ adapterCalls = <<>>
    /\ sent = <<>>
    /\ adapterResult = NoOutcome
    /\ result = NoOutcome
    /\ adapterYielded = <<>>
    /\ yielded = <<>>

\* a parameter the object does not have
Absent == "absent"

ParamNames == {"temperature", "max_tokens", "top_p", "stop"}

NoParams == [p \in ParamNames |-> Absent]

NoBody == [sent |-> FALSE, params |-> NoParams]

NoOptionsGiven == [params |-> NoParams, additional_params |-> NoParams]

InitTransformer ==
    /\ tAdapter = "none"
    /\ tDefaults = NoParams
    /\ tOptions = NoOptionsGiven
    /\ tBody = NoBody

NoVendorResponse == [array |-> FALSE, content |-> <<>>, stop_reason |-> Absent]

NoConverted == [done |-> FALSE, content |-> Null, function_call |-> <<>>,
                finish_reason |-> "none"]

InitConverter ==
    /\ vResponse = NoVendorResponse
    /\ vConverted = NoConverted

NoMessagesRequest == [messages |-> <<>>, tools |-> <<>>, functions |-> <<>>]

NoVendorBody == [done |-> FALSE, threw |-> "none", messages |-> <<>>, system |-> <<>>,
                 tools |-> <<>>]

InitMessages ==
    /\ mRequest = NoMessagesRequest
    /\ mBody = NoVendorBody

InitEvents ==
    /\ sEvents = <<>>
    /\ sChunks = <<>>

NoRequestObject == [model |-> Null, messages |-> <<>>, stream |-> Absent]

NoCallerCall == [op |-> "none", adapter |-> "none", asked |-> NoRequestObject,
                 request |-> 0, passed |-> 0, phase |-> "idle"]

InitCaller ==
    /\ heap = <<>>
    /\ cCall = NoCallerCall

InitTranslating == InitMessages /\ InitEvents /\ InitCaller

Init == InitLiteLLM /\ InitDecoder /\ InitAdapter /\ InitConcurrent /\ InitTransformer
        /\ InitConverter /\ InitTranslating

ForgetQuery ==
    /\ lastCall' = NoCall
    /\ parseRet' = NoParse
    /\ resolveRet' = NoProxyResult

\* parseModelString and getProviderForModel are synchronous: nothing runs
\* between their call and their return
RegisterProvider(type) ==
    /\ lastCall = NoCall
    /\ LET providerType == toLowerCase(type)
       IN  IF providerType \in SupportedTypes
           THEN providers' = ProvidersPut(providerType)
           ELSE providers' = providers      \* throws LiteLLMError 400
    /\ UNCHANGED <<others, proxies, query, facade>>

CreateProxy(options) ==
    /\ lastCall = NoCall
    /\ Len(proxies) < MaxProxies
    /\ proxies' = registerProxy(ProxyConfigOf(options, Len(proxies) + 1))
    /\ UNCHANGED <<others, providers, query, facade>>

\* the caller is done with the value the last query returned
Return ==
    /\ lastCall # NoCall
    /\ ForgetQuery
    /\ UNCHANGED <<others, registry, facade>>

ParseModelString(modelString) ==
    /\ lastCall = NoCall
    /\ lastCall' = [fn |-> "parseModelString", arg |-> modelString]
    /\ parseRet' = parseModelString(modelString)
    /\ resolveRet' = NoProxyResult
    /\ UNCHANGED <<others, registry, facade>>

GetProviderForModel(modelString) ==
    /\ lastCall = NoCall
    /\ lastCall' = [fn |-> "getProviderForModel", arg |-> modelString]
    /\ resolveRet' = getProviderForModel(modelString)
    /\ parseRet' = NoParse
    /\ UNCHANGED <<others, registry, facade>>

Register ==
    \/ \E type \in RegisterTypes : RegisterProvider(type)
    \/ \E options \in ProxyOptions : CreateProxy(options)

Next ==
    \/ Register
    \/ Return
    \/ \E modelString \in ModelIds : GetProviderForModel(modelString)

Spec == Init /\ [][Next]_vars

NextParse ==
    \/ Register
    \/ Return
    \/ \E modelString \in ParseInputs : ParseModelString(modelString)

SpecParse == Init /\ [][NextParse]_vars

----------------------------------------------------------------------------
(* completion and streamCompletion *)

Settled == {"idle", "returned", "thrown", "done"}

\* the first part of completion / streamCompletion, up to the call of the
\* adapter: resolve, throw when nothing was found, build the options, call
Dispatch(method, options) ==
    LET resolution == getProviderForModel(options.model)
        passed     == completionOptions(options, resolution.actualModel)
    IN  /\ target' = resolution
        /\ IF NoProviderFound(resolution)
           THEN /\ result' = ProviderNotFoundError
                /\ status' = "thrown"
                /\ adapterCalls' = <<>>
                /\ sent' = <<>>
           ELSE IF ~IsAdapter(resolution.provider)
           THEN /\ result' = NotAFunction
                /\ status' = "thrown"
                /\ adapterCalls' = <<>>
                /\ sent' = <<>>
           ELSE /\ result' = NoOutcome
                /\ status' = IF method = "completion" THEN "awaiting" ELSE "started"
                /\ adapterCalls' = <<[adapter |-> resolution.provider,
                                      method  |-> method,
                                      options |-> passed]>>
                /\ sent' = fetchBodies(resolution.provider, passed, method)

\* liteLLM.completion(options), up to its await
Completion(options) ==
    /\ status \in Settled
    /\ call' = [op |-> "completion", options |-> options]
    /\ Dispatch("completion", options)
    /\ adapterResult' = NoOutcome
    /\ adapterYielded' = <<>>
    /\ yielded' = <<>>
    /\ UNCHANGED <<others, registry, query>>

\* the adapter's promise resolves: completion returns the value
AdapterResolves(value) ==
    /\ status = "awaiting"
    /\ adapterResult' = Outcome("value", 0, value)
    /\ result' = facadeReturn(value)
    /\ status' = "returned"
    /\ UNCHANGED <<others, registry, query, call, target, adapterCalls, sent, adapterYielded, yielded>>

\* the adapter's promise rejects: completion rethrows
AdapterRejects ==
    /\ status = "awaiting"
    /\ adapterResult' = AdapterError
    /\ result' = AdapterError
    /\ status' = "thrown"
    /\ UNCHANGED <<others, registry, query, call, target, adapterCalls, sent, adapterYielded, yielded>>

\* liteLLM.streamCompletion(options): the generator object is created, its
\* body has not started
StreamCompletion(options) ==
    /\ status \in Settled
    /\ call' = [op |-> "streamCompletion", options |-> options]
    /\ status' = "created"
    /\ target' = NoProxyResult
    /\ adapterCalls' = <<>>
    /\ sent' = <<>>
    /\ adapterResult' = NoOutcome
    /\ result' = NoOutcome
    /\ adapterYielded' = <<>>
    /\ yielded' = <<>>
    /\ UNCHANGED <<others, registry, query>>

\* the consumer's first next(): the body runs up to yield*
StreamStart ==
    /\ status = "created"
    /\ Dispatch("streamCompletion", call.options)
    /\ UNCHANGED <<others, registry, query, call, adapterResult, adapterYielded, yielded>>

\* the adapter's generator yields a chunk and yield* passes it on
StreamChunk(chunk) ==
    /\ status \in {"started", "streaming"}
    /\ Len(adapterYielded) < MaxChunks
    /\ adapterYielded' = Append(adapterYielded, chunk)
    /\ yielded' = yielded \o facadeYield(chunk)
    /\ status' = "streaming"
    /\ UNCHANGED <<others, registry, query, call, target, adapterCalls, sent, adapterResult, result>>

\* the adapter's generator returns
StreamEnds ==
    /\ status \in {"started", "streaming"}
    /\ status' = "done"
    /\ UNCHANGED <<others, registry, query, call, target, adapterCalls, sent, adapterResult, result,
                   adapterYielded, yielded>>

\* the adapter's generator throws
StreamFails ==
    /\ status \in {"started", "streaming"}
    /\ adapterResult' = AdapterError
    /\ result' = AdapterError
    /\ status' = "thrown"
    /\ UNCHANGED <<others, registry, query, call, target, adapterCalls, sent, adapterYielded, yielded>>

NextFacade ==
    \/ Register
    \/ \E options \in Requests : Completion(options)
    \/ \E value \in AdapterValues : AdapterResolves(value)
    \/ AdapterRejects
    \/ \E options \in Requests : StreamCompletion(options)
    \/ StreamStart
    \/ \E chunk \in Chunks : StreamChunk(chunk)
    \/ StreamEnds
    \/ StreamFails

SpecFacade == Init /\ [][NextFacade]_vars

----------------------------------------------------------------------------
(* The chunk decoder: _processChunk of LiteLLM (used by the proxy adapters), *)
(* of OpenAIProvider and of AnthropicProvider                                *)

NL == "\n"

SP == " "

DataMarker == "data:"

\* the line '[DONE]'
Done == <<"[DONE]">>

\* String.prototype.trim, on the whitespace token
RECURSIVE trimStart(_)
trimStart(s) == IF s # <<>> /\ Head(s) = SP THEN trimStart(Tail(s)) ELSE s

RECURSIVE trimEnd(_)
trimEnd(s) ==
    IF s # <<>> /\ s[Len(s)] = SP THEN trimEnd(SubSeq(s, 1, Len(s) - 1)) ELSE s

trim(s) == trimEnd(trimStart(s))

\* chunk.split('\n')
RECURSIVE splitLines(_)
splitLines(chunk) ==
    IF \A i \in 1..Len(chunk) : chunk[i] # NL
    THEN <<chunk>>
    ELSE LET i == CHOOSE j \in 1..Len(chunk) :
                      chunk[j] = NL /\ \A k \in 1..(j - 1) : chunk[k] # NL
         IN  <<SubSeq(chunk, 1, i - 1)>> \o splitLines(SubSeq(chunk, i + 1, Len(chunk)))

\* line.replace(/^data: /, ''): the marker goes only when it opens the line
\* and a space follows it
stripData(line) ==
    IF Len(line) >= 2 /\ line[1] = DataMarker /\ line[2] = SP
    THEN SubSeq(line, 3, Len(line))
    ELSE line

\* const lines = chunk.split('\n').filter(...).map(...)
dataLines(chunk) ==
    LET kept == SelectSeq(splitLines(chunk),
                          LAMBDA line : startsWith(trim(line), <<DataMarker>>))
    IN  [i \in 1..Len(kept) |-> trim(stripData(kept[i]))]

\* the JSON texts of the model and the objects they denote
JsonTexts == {"{a}", "{b}"}

JsonObject(text) == IF text = "{a}" THEN [id |-> "a"] ELSE [id |-> "b"]

SyntaxError == [id |-> "SyntaxError"]

\* JSON.parse(line): the object, or SyntaxError where it throws
JSONparse(line) ==
    IF Len(line) = 1 /\ line[1] \in JsonTexts THEN JsonObject(line[1]) ELSE SyntaxError

\* a loop that a line which does not parse brings to an end
RECURSIVE processLinesStrict(_, _)
processLinesStrict(ls, returnAtDone) ==
    IF ls = <<>>
    THEN <<>>
    ELSE IF Head(ls) = Done
    THEN IF returnAtDone THEN <<>> ELSE processLinesStrict(Tail(ls), returnAtDone)
    ELSE IF Truthy(Head(ls)) /\ JSONparse(Head(ls)) = SyntaxError
    THEN <<>>
    ELSE IF Truthy(Head(ls))
    THEN <<JSONparse(Head(ls))>> \o processLinesStrict(Tail(ls), returnAtDone)
    ELSE processLinesStrict(Tail(ls), returnAtDone)

\* for (const line of lines) { ... }: at '[DONE]' the loop returns (LiteLLM,
\* OpenAIProvider) or continues (AnthropicProvider); a non-empty line is
\* parsed and the object kept; a SyntaxError is caught and logged
RECURSIVE processLines(_, _)
processLines(ls, returnAtDone) ==
    IF ls = <<>>
    THEN <<>>
    ELSE IF Head(ls) = Done
    THEN IF returnAtDone THEN <<>> ELSE processLines(Tail(ls), returnAtDone)
    ELSE IF Truthy(Head(ls)) /\ JSONparse(Head(ls)) # SyntaxError
    THEN <<JSONparse(Head(ls))>> \o processLines(Tail(ls), returnAtDone)
    ELSE processLines(Tail(ls), returnAtDone)

LiteLLM_processChunk(chunk) == processLines(dataLines(chunk), TRUE)

OpenAIProvider_processChunk(chunk) == processLines(dataLines(chunk), TRUE)

AnthropicProvider_processChunk(chunk) == processLines(dataLines(chunk), FALSE)

Decoders == {"LiteLLM", "OpenAI", "Anthropic"}

processChunk(d, chunk) ==
    CASE d = "LiteLLM"   -> LiteLLM_processChunk(chunk)
      [] d = "OpenAI"    -> OpenAIProvider_processChunk(chunk)
      [] d = "Anthropic" -> AnthropicProvider_processChunk(chunk)

\* the lines a backend writes
LineTexts ==
    { <<DataMarker, SP, "{a}">>,        \* data: {a}
      <<DataMarker, SP, "{b}">>,        \* data: {b}
      <<DataMarker, SP, "[DONE]">>,     \* data: [DONE]
      <<DataMarker, SP, "{oops">>,      \* data: and a payload that is no JSON
      <<DataMarker, "{a}">>,            \* data:{a}
      <<SP, DataMarker, SP, "{b}">>,    \*  data: {b}
      <<"event:", SP, "ping">>,         \* event: ping
      <<>> }                            \* an empty line

\* the text of a fragment: each line and its line end
RECURSIVE joinLines(_)
joinLines(ls) == IF ls = <<>> THEN <<>> ELSE Head(ls) \o <<NL>> \o joinLines(Tail(ls))

FragmentLines == UNION {[1..k -> LineTexts] : k \in 0..MaxLines}

InitDecode ==
    /\ InitLiteLLM
    /\ decoder \in Decoders
    /\ lines \in FragmentLines
    /\ decoded = [done |-> FALSE, objects |-> <<>>]
    /\ InitAdapter
    /\ InitConcurrent
    /\ InitTransformer
    /\ InitConverter
    /\ InitTranslating

\* _processChunk runs over the fragment
ProcessChunk ==
    /\ decoder \in Decoders
    /\ ~decoded.done
    /\ decoded' = [done |-> TRUE, objects |-> processChunk(decoder, joinLines(lines))]
    /\ UNCHANGED <<registry, query, facade, decoder, lines, adapting, concurrent, converting, translating>>

NextDecode == ProcessChunk

SpecDecode == InitDecode /\ [][NextDecode]_vars

----------------------------------------------------------------------------
(* One call of an adapter: completion and streamCompletion of               *)
(* OpenAIProvider, AnthropicProvider and of the proxy adapter, with the       *)
(* transport (LiteLLMClient.request / fetch) and the consumer as environment  *)

Adapters == {"OpenAI", "Anthropic", "proxy"}

\* how the adapter finds the response body: a web ReadableStream
\* (body.getReader), a Node.js Readable (body.on), or neither (response.text)
BodyKinds == {"reader", "node", "text"}

\* the decoder the adapter's streamCompletion calls
decoderOf(adapter) == IF adapter = "proxy" THEN "LiteLLM" ELSE adapter

\* the `signal` option the adapter hands to the transport: makeRequest is
\* called with { method, body, stream } and the proxy's fetch with
\* { method, headers, body }, so none
fetchSignal(adapter) == Null

\* new LiteLLMError(`... failed with status ${response.status}`,
\* response.status, errorData), errorData = await response.json().catch(() => ({}))
upstreamError(resp) ==
    AdapterOutcome("LiteLLMError", resp.status, IF resp.json THEN resp.text ELSE "{}", "none")

\* what a rejected fetch, or a body that response.json() cannot parse, turns
\* into: LiteLLMClient.request wraps it, the proxy adapter has no catch
requestError(adapter, cause) ==
    IF adapter = "proxy"
    THEN AdapterOutcome(cause, 0, "none", "none")
    ELSE AdapterOutcome("LiteLLMError", 500, "{originalError}", cause)

\* an error of reader.read(), of the body's iterator or of response.text():
\* no catch on the way
readError(cause) == AdapterOutcome(cause, 0, "none", "none")

\* what completion returns for the JSON the backend answered
completionValue(adapter, json) == IF adapter = "Anthropic" THEN "canonical" ELSE json

\* what streamCompletion yields for a decoded object: the object itself, or
\* AnthropicProvider's conversion of it
streamChunkOf(adapter, object) ==
    IF adapter = "Anthropic" THEN [converted |-> object] ELSE object

\* the chunks of one fragment of text, in the order they will be yielded
chunksOf(adapter, fragment) ==
    LET objects == processChunk(decoderOf(adapter), joinLines(fragment))
    IN  [i \in 1..Len(objects) |-> streamChunkOf(adapter, objects[i])]

\* a generator that goes on to the next read as soon as it has yielded the
\* last chunk of a fragment
afterYieldEager(rest) == IF rest = <<>> THEN "reading" ELSE "yielded"

\* where the generator stands after a yield: suspended until the next next()
afterYield(rest) == "yielded"

\* the fragments a backend sends
StreamFragments ==
    { << <<DataMarker, SP, "{a}">> >>,
      << <<DataMarker, SP, "{a}">>, <<DataMarker, SP, "[DONE]">> >>,
      << <<DataMarker, SP, "{b}">>, <<DataMarker, SP, "{a}">> >>,
      << <<DataMarker, SP, "[DONE]">>, <<DataMarker, SP, "{b}">> >>,
      << <<"event:", SP, "ping">> >> }

\* the answers of the transport
Responses ==
    { [kind |-> "ok",      status |-> 200, json |-> TRUE,  text |-> "r1"],
      [kind |-> "ok",      status |-> 200, json |-> FALSE, text |-> "<html>"],
      [kind |-> "status",  status |-> 429, json |-> TRUE,  text |-> "e1"],
      [kind |-> "status",  status |-> 503, json |-> FALSE, text |-> "<html>"],
      [kind |-> "network", status |-> 0,   json |-> FALSE, text |-> "ECONNRESET"] }

InFlight == gen \notin {"idle", "done", "threw"}

\* the transport acts on an abort only through the signal it was given
TransportAborted == aborted /\ fetchSignal(aCall.adapter) # Null

\* the generator has chunks in hand while a next() is pending: it yields the
\* first and keeps the rest; with none it goes on as `otherwise` says
Yield(chunks, otherwise) ==
    IF chunks # <<>>
    THEN /\ delivered' = Append(delivered, Head(chunks))
         /\ buffer' = Tail(chunks)
         /\ gen' = afterYield(Tail(chunks))
         /\ pulling' = FALSE
    ELSE /\ delivered' = delivered
         /\ buffer' = <<>>
         /\ gen' = otherwise
         /\ pulling' = (otherwise \notin {"done", "threw"})

\* adapter.completion(options) up to its await, or adapter.streamCompletion(options):
\* the generator is created and its body has not started
CallAdapter(adapter, method, body) ==
    /\ gen = "idle"
    /\ aCall' = [adapter |-> adapter, method |-> method, body |-> body]
    /\ gen' = IF method = "completion" THEN "requesting" ELSE "created"
    /\ fetches' = IF method = "completion" THEN 1 ELSE 0
    /\ UNCHANGED <<registry, query, facade, decoding, concurrent, converting, translating,
                   pulling, pulls, response, handle,
                   received, buffer, delivered, outcome, aborted, closed, ended>>

\* the consumer calls next(): the body runs to its next await or yield
Pull ==
    /\ aCall.method = "streamCompletion"
    /\ ~pulling
    /\ gen \in {"created", "yielded"}
    /\ pulls' = pulls + 1
    /\ IF gen = "created"
       THEN /\ gen' = "requesting"
            /\ pulling' = TRUE
            /\ fetches' = fetches + 1
            /\ UNCHANGED <<buffer, delivered, handle>>
       ELSE /\ Yield(buffer, IF aCall.body = "text" THEN "done" ELSE "reading")
            /\ UNCHANGED <<fetches, handle>>
    /\ UNCHANGED <<registry, query, facade, decoding, concurrent, converting, translating,
                   aCall, response, received,
                   outcome, aborted, closed, ended>>

\* the transport settles the request
Respond(resp) ==
    /\ gen = "requesting"
    /\ ~TransportAborted
    /\ aCall.method = "streamCompletion" => (resp.kind = "ok" => resp.json)
    /\ response' = resp
    /\ pulls' = pulls
    /\ IF resp.kind = "status"
       THEN /\ outcome' = upstreamError(resp)
            /\ gen' = "threw"
            /\ pulling' = FALSE
            /\ handle' = handle
       ELSE IF resp.kind = "network"
       THEN /\ outcome' = requestError(aCall.adapter, resp.text)
            /\ gen' = "threw"
            /\ pulling' = FALSE
            /\ handle' = handle
       ELSE IF aCall.method = "completion"
       THEN /\ outcome' = IF resp.json
                          THEN AdapterOutcome("value", 0,
                                              completionValue(aCall.adapter, resp.text), "none")
                          ELSE requestError(aCall.adapter, "SyntaxError")
            /\ gen' = IF resp.json THEN "done" ELSE "threw"
            /\ pulling' = FALSE
            /\ handle' = handle
       ELSE /\ outcome' = outcome
            /\ gen' = IF aCall.body = "text" THEN "readingText" ELSE "reading"
            /\ pulling' = pulling
            /\ handle' = IF aCall.body = "text" THEN "none" ELSE "held"
    /\ UNCHANGED <<registry, query, facade, decoding, concurrent, converting, translating,
                   aCall, fetches, received, buffer,
                   delivered, aborted, closed, ended>>

\* reader.read() / the body's iterator / response.text() gives a fragment
Deliver(fragment) ==
    /\ gen \in {"reading", "readingText"}
    /\ ~TransportAborted
    /\ Len(received) < MaxFragments
    /\ received' = Append(received, fragment)
    /\ Yield(chunksOf(aCall.adapter, fragment),
             IF gen = "readingText" THEN "done" ELSE "reading")
    /\ UNCHANGED <<registry, query, facade, decoding, concurrent, converting, translating,
                   aCall, pulls, fetches, response,
                   handle, outcome, aborted, closed, ended>>

\* reader.read() answers done, or the body's iterator ends
EndOfStream ==
    /\ gen = "reading"
    /\ ~TransportAborted
    /\ ended' = TRUE
    /\ handle' = "released"
    /\ gen' = "done"
    /\ pulling' = FALSE
    /\ UNCHANGED <<registry, query, facade, decoding, concurrent, converting, translating,
                   aCall, pulls, fetches, response,
                   received, buffer, delivered, outcome, aborted, closed>>

\* reading fails
ReadFails ==
    /\ gen \in {"reading", "readingText"}
    /\ outcome' = readError(IF TransportAborted THEN "AbortError" ELSE "ECONNRESET")
    /\ handle' = IF handle = "held" THEN "released" ELSE handle
    /\ gen' = "threw"
    /\ pulling' = FALSE
    /\ UNCHANGED <<registry, query, facade, decoding, concurrent, converting, translating,
                   aCall, pulls, fetches, response,
                   received, buffer, delivered, aborted, closed, ended>>

\* the consumer calls return() on the suspended generator: a body that has
\* not started just ends, one suspended at a yield runs its finally
Close ==
    /\ aCall.method = "streamCompletion"
    /\ ~pulling
    /\ gen \in {"created", "yielded"}
    /\ closed' = TRUE
    /\ handle' = IF handle = "held" THEN "released" ELSE handle
    /\ buffer' = <<>>
    /\ gen' = "done"
    /\ UNCHANGED <<registry, query, facade, decoding, concurrent, converting, translating,
                   aCall, pulling, pulls, fetches,
                   response, received, delivered, outcome, aborted, ended>>

\* the caller's AbortController fires
Abort ==
    /\ InFlight
    /\ ~aborted
    /\ aborted' = TRUE
    /\ UNCHANGED <<registry, query, facade, decoding, concurrent, converting, translating,
                   aCall, gen, pulling, pulls, fetches,
                   response, handle, received, buffer, delivered, outcome, closed, ended>>

NextAdapter ==
    \/ \E adapter \in Adapters, method \in {"completion", "streamCompletion"},
          body \in BodyKinds : CallAdapter(adapter, method, body)
    \/ Pull
    \/ \E resp \in Responses : Respond(resp)
    \/ \E fragment \in StreamFragments : Deliver(fragment)
    \/ EndOfStream
    \/ ReadFails
    \/ Close
    \/ Abort

SpecAdapter == Init /\ [][NextAdapter]_vars

----------------------------------------------------------------------------
(* Several facade calls in flight.  JavaScript runs one of them at a time,   *)
(* from one await or yield to the next; what a call keeps between two steps   *)
(* are the locals of its own invocation.                                      *)

\* invocations that all keep their locals in one place
localsShared(i) == "A"

\* the locals of invocation i: its own (const provider, actualModel,
\* completionOptions are declared inside completion / streamCompletion)
localsOf(i) == i

\* what the adapter called by invocation i resolves with, and its k-th chunk
valueFor(i) == i

chunkFor(i, k) == <<i, k>>

\* the requests of the concurrent callers
ConcurrentRequests ==
    {[model |-> m, messages |-> "hello", stream |-> "absent"] :
        m \in {<<"gpt-">>, <<"openai", Sep, "claude-">>}}

\* the locals after resolution and the not-found check
dispatch(c, method) ==
    LET resolution == getProviderForModel(c.options.model)
    IN  [c EXCEPT
            !.target = resolution,
            !.result = IF NoProviderFound(resolution) THEN ProviderNotFoundError
                       ELSE IF ~IsAdapter(resolution.provider) THEN NotAFunction
                       ELSE NoOutcome,
            !.status = IF NoProviderFound(resolution) \/ ~IsAdapter(resolution.provider)
                       THEN "thrown"
                       ELSE IF method = "completion" THEN "awaiting" ELSE "streaming"]

\* the adapter call the invocation makes with these locals
passedTo(c) ==
    IF c.status \in {"awaiting", "streaming"}
    THEN <<[adapter |-> c.target.provider, method |-> c.op,
            options |-> completionOptions(c.options, c.target.actualModel)]>>
    ELSE <<>>

Free(i) == calls[localsOf(i)].status \in Settled

NoTraffic == \A i \in CallIds : calls[i].op = "none"

\* caller i calls liteLLM.completion(options)
ConcurrentCompletion(i, options) ==
    LET c == dispatch([IdleCall EXCEPT !.op = "completion", !.options = options],
                      "completion")
    IN  /\ Free(i)
        /\ calls' = [calls EXCEPT ![localsOf(i)] = c]
        /\ backend' = [backend EXCEPT ![i] = [IdleBackend EXCEPT !.request = options,
                                                                 !.passed = passedTo(c)]]
        /\ UNCHANGED <<registry, query, facade, decoding, adapting, converting, translating>>

\* the adapter called for i resolves and completion returns
ConcurrentResolves(i) ==
    /\ calls[localsOf(i)].status = "awaiting"
    /\ backend[i].passed # <<>>
    /\ backend[i].settled = NoOutcome
    /\ backend' = [backend EXCEPT ![i].settled = Outcome("value", 0, valueFor(i))]
    /\ calls' = [calls EXCEPT ![localsOf(i)].result = facadeReturn(valueFor(i)),
                              ![localsOf(i)].status = "returned"]
    /\ UNCHANGED <<registry, query, facade, decoding, adapting, converting, translating>>

\* the adapter called for i rejects, or its generator throws
ConcurrentFails(i) ==
    /\ calls[localsOf(i)].status \in {"awaiting", "streaming"}
    /\ backend[i].passed # <<>>
    /\ backend[i].settled = NoOutcome
    /\ backend' = [backend EXCEPT ![i].settled = AdapterError]
    /\ calls' = [calls EXCEPT ![localsOf(i)].result = AdapterError,
                              ![localsOf(i)].status = "thrown"]
    /\ UNCHANGED <<registry, query, facade, decoding, adapting, converting, translating>>

\* caller i calls liteLLM.streamCompletion(options): the body has not started
ConcurrentStream(i, options) ==
    /\ Free(i)
    /\ calls' = [calls EXCEPT ![localsOf(i)] =
                    [IdleCall EXCEPT !.op = "streamCompletion", !.options = options,
                                     !.status = "created"]]
    /\ backend' = [backend EXCEPT ![i] = [IdleBackend EXCEPT !.request = options]]
    /\ UNCHANGED <<registry, query, facade, decoding, adapting, converting, translating>>

\* the first next() of i's consumer: the body runs up to yield*
ConcurrentStart(i) ==
    LET c == dispatch(calls[localsOf(i)], "streamCompletion")
    IN  /\ calls[localsOf(i)].status = "created"
        /\ backend[i].request # NoOptions
        /\ backend[i].passed = <<>>
        /\ calls' = [calls EXCEPT ![localsOf(i)] = c]
        /\ backend' = [backend EXCEPT ![i].passed = passedTo(c)]
        /\ UNCHANGED <<registry, query, facade, decoding, adapting, converting, translating>>

\* the generator of i's adapter yields its next chunk and yield* passes it on
ConcurrentChunk(i) ==
    LET chunk == chunkFor(i, Len(backend[i].chunks) + 1)
    IN  /\ calls[localsOf(i)].status = "streaming"
        /\ backend[i].passed # <<>>
        /\ backend[i].settled = NoOutcome
        /\ Len(backend[i].chunks) < MaxChunks
        /\ backend' = [backend EXCEPT ![i].chunks = Append(@, chunk)]
        /\ calls' = [calls EXCEPT ![localsOf(i)].yielded = @ \o facadeYield(chunk)]
        /\ UNCHANGED <<registry, query, facade, decoding, adapting, converting, translating>>

\* the generator of i's adapter returns
ConcurrentEnds(i) ==
    /\ calls[localsOf(i)].status = "streaming"
    /\ backend[i].passed # <<>>
    /\ backend[i].settled = NoOutcome
    /\ backend' = [backend EXCEPT ![i].settled = Outcome("done", 0, "none")]
    /\ calls' = [calls EXCEPT ![localsOf(i)].status = "done"]
    /\ UNCHANGED <<registry, query, facade, decoding, adapting, converting, translating>>

\* registration is done before the first request
Setup == NoTraffic /\ Register

NextConcurrent ==
    \/ Setup
    \/ \E i \in CallIds, options \in ConcurrentRequests : ConcurrentCompletion(i, options)
    \/ \E i \in CallIds : ConcurrentResolves(i)
    \/ \E i \in CallIds : ConcurrentFails(i)
    \/ \E i \in CallIds, options \in ConcurrentRequests : ConcurrentStream(i, options)
    \/ \E i \in CallIds : ConcurrentStart(i)
    \/ \E i \in CallIds : ConcurrentChunk(i)
    \/ \E i \in CallIds : ConcurrentEnds(i)

SpecConcurrent == Init /\ [][NextConcurrent]_vars

----------------------------------------------------------------------------
(* _transformOptions: the request body an adapter builds from its           *)
(* defaultParams and the options of the request.  A parameter is a key of    *)
(* the object or absent from it; "0" stands for the value of a parameter     *)
(* that is set and falsy (0, '').                                            *)

Falsy(v) == v \in {Absent, "0"}

\* a || b on parameter values
OrElse(a, b) == IF Falsy(a) THEN b ELSE a

\* { ...a, ...b }: the own keys of b replace those of a
spread(a, b) == [p \in ParamNames |-> IF b[p] # Absent THEN b[p] ELSE a[p]]

\* Provider._transformOptions, which OpenAIProvider inherits
Provider_transformOptions(defaultParams, options) ==
    spread(defaultParams, options.params)

\* what AnthropicProvider sends when the request has no max_tokens / stop
DefaultMaxTokens == "2048"

DefaultStop == "['stop','max_tokens']"

\* AnthropicProvider._transformOptions
Anthropic_transformOptions(defaultParams, options) ==
    LET transformed ==
            [defaultParams EXCEPT
                !["max_tokens"] = OrElse(options.params["max_tokens"], DefaultMaxTokens),
                !["stop"] = OrElse(options.params["stop"], DefaultStop),
                !["temperature"] = IF options.params["temperature"] # Absent
                                   THEN options.params["temperature"]
                                   ELSE @]
    IN  spread(transformed, options.additional_params)

TransformAdapters == {"OpenAI", "Anthropic"}

transformOptions(adapter, defaultParams, options) ==
    IF adapter = "Anthropic"
    THEN Anthropic_transformOptions(defaultParams, options)
    ELSE Provider_transformOptions(defaultParams, options)

\* defaultParams given to registerProvider
DefaultParamSets == [ParamNames -> {Absent, "default"}]

\* the parameters a request sets
RequestParamSets == [ParamNames -> {Absent, "0", "requested"}]

AdditionalParamSets ==
    {NoParams, [NoParams EXCEPT !["top_p"] = "additional"],
     [NoParams EXCEPT !["max_tokens"] = "additional"]}

InitTransform ==
    /\ InitLiteLLM
    /\ InitDecoder
    /\ InitAdapter
    /\ InitConcurrent
    /\ InitConverter
    /\ InitTranslating
    /\ tAdapter \in TransformAdapters
    /\ tDefaults \in DefaultParamSets
    /\ tOptions \in [params : RequestParamSets, additional_params : AdditionalParamSets]
    /\ tBody = NoBody

\* completion / streamCompletion build the body and hand it to makeRequest
TransformOptions ==
    /\ tAdapter \in TransformAdapters
    /\ ~tBody.sent
    /\ tBody' = [sent |-> TRUE, params |-> transformOptions(tAdapter, tDefaults, tOptions)]
    /\ UNCHANGED <<registry, query, facade, decoding, adapting, concurrent, translating, tAdapter,
                   tDefaults, tOptions, vResponse, vConverted>>

NextTransform == TransformOptions

SpecTransform == InitTransform /\ [][NextTransform]_vars

----------------------------------------------------------------------------
(* _convertResponseToOpenAIFormat: the canonical response AnthropicProvider  *)
(* makes of a response of the Anthropic API.  Texts are token sequences, an   *)
(* object is the sequence of its <<key, value>> members.                      *)

Quoted(str) == <<"\"", str, "\"">>

RECURSIVE members(_)
members(pairs) ==
    IF pairs = <<>> THEN <<>>
    ELSE Quoted(Head(pairs)[1]) \o <<":">> \o Quoted(Head(pairs)[2])
         \o (IF Len(pairs) > 1 THEN <<",">> ELSE <<>>) \o members(Tail(pairs))

\* JSON.stringify of an object of string members
JSONstringify(obj) == <<"{">> \o members(obj) \o <<"}">>

TextBlock(text) == [type |-> "text", text |-> text, name |-> "", input |-> <<>>]

ToolUseBlock(name, input) == [type |-> "tool_use", text |-> <<>>, name |-> name, input |-> input]

ThinkingBlock == [type |-> "thinking", text |-> <<>>, name |-> "", input |-> <<>>]

\* the loop over response.content: the last text block and the last tool_use
\* block are the ones kept
RECURSIVE scanBlocks(_, _)
scanBlocks(blocks, found) ==
    IF blocks = <<>> THEN found
    ELSE LET block == Head(blocks)
         IN  scanBlocks(Tail(blocks),
                IF block.type = "text" THEN [found EXCEPT !.content = block.text]
                ELSE IF block.type = "tool_use"
                     THEN [found EXCEPT !.functionCall =
                              <<[name |-> block.name,
                                 arguments |-> JSONstringify(block.input)]>>]
                     ELSE found)

\* finish_reason mapped from response.stop_reason
finishReasonOf(stop_reason) ==
    IF stop_reason = "tool_use" THEN "function_call"
    ELSE IF stop_reason = "max_tokens" THEN "length"
    ELSE "stop"

\* a message that keeps its text beside the function call
messageWithText(content, functionCall) ==
    [content |-> content, function_call |-> functionCall]

\* the message object: function_call is a key only when there is one, and
\* then content is null
messageOf(content, functionCall) ==
    [content |-> IF functionCall # <<>> THEN Null ELSE content,
     function_call |-> functionCall]

convertResponseToOpenAIFormat(resp) ==
    LET found == IF resp.array
                 THEN scanBlocks(resp.content, [content |-> Null, functionCall |-> <<>>])
                 ELSE [content |-> Null, functionCall |-> <<>>]
        message == messageOf(found.content, found.functionCall)
    IN  [done |-> TRUE, content |-> message.content,
         function_call |-> message.function_call,
         finish_reason |-> finishReasonOf(resp.stop_reason)]

ContentBlocks ==
    {TextBlock(<<"Hello">>), TextBlock(<<"World">>), ThinkingBlock,
     ToolUseBlock("get_weather", << <<"city", "Paris">> >>),
     ToolUseBlock("get_time", <<>>)}

StopReasons == {"end_turn", "tool_use", "max_tokens", Absent}

VendorResponses ==
    {[array |-> TRUE, content |-> blocks, stop_reason |-> reason] :
        blocks \in UNION {[1..n -> ContentBlocks] : n \in 0..MaxBlocks},
        reason \in StopReasons}
    \cup {[NoVendorResponse EXCEPT !.stop_reason = reason] : reason \in StopReasons}

InitConvert ==
    /\ InitLiteLLM
    /\ InitDecoder
    /\ InitAdapter
    /\ InitConcurrent
    /\ InitTransformer
    /\ InitTranslating
    /\ vResponse \in VendorResponses
    /\ vConverted = NoConverted

\* AnthropicProvider.completion converts the response it received
ConvertResponse ==
    /\ ~vConverted.done
    /\ vConverted' = convertResponseToOpenAIFormat(vResponse)
    /\ UNCHANGED <<registry, query, facade, decoding, adapting, concurrent, translating, tAdapter,
                   tDefaults, tOptions, tBody, vResponse>>

NextConvert == ConvertResponse

SpecConvert == InitConvert /\ [][NextConvert]_vars

----------------------------------------------------------------------------
(* The request AnthropicProvider._transformOptions builds from the messages, *)
(* tools and functions of a canonical request.  A value that may be missing   *)
(* (function_call, tools, ...) is a sequence of no or one element.            *)

\* JSON.parse of the members of an object of string members
RECURSIVE parseMembers(_)
parseMembers(toks) ==
    IF \/ Len(toks) < 7
       \/ <<toks[1], toks[3], toks[4], toks[5], toks[7]>> # <<"\"", "\"", ":", "\"", "\"">>
    THEN [ok |-> FALSE, value |-> <<>>]
    ELSE LET pair == <<toks[2], toks[6]>>
             rest == SubSeq(toks, 8, Len(toks))
         IN  IF rest = <<>> THEN [ok |-> TRUE, value |-> <<pair>>]
             ELSE IF rest[1] # "," THEN [ok |-> FALSE, value |-> <<>>]
             ELSE LET more == parseMembers(Tail(rest))
                  IN  [ok |-> more.ok, value |-> IF more.ok THEN <<pair>> \o more.value ELSE <<>>]

\* JSON.parse(text) for the text of an object: ok is FALSE where it throws a
\* SyntaxError; whitespace between the tokens is insignificant
JSONparseObject(text) ==
    LET toks == SelectSeq(text, LAMBDA t : t # SP)
    IN  IF Len(toks) < 2 \/ toks[1] # "{" \/ toks[Len(toks)] # "}"
        THEN [ok |-> FALSE, value |-> <<>>]
        ELSE IF Len(toks) = 2 THEN [ok |-> TRUE, value |-> <<>>]
        ELSE parseMembers(SubSeq(toks, 2, Len(toks) - 1))

Message(role, content) ==
    [role |-> role, content |-> content, function_call |-> <<>>, function_call_result |-> <<>>]

\* a message of the Anthropic request: content is a string, or an array of blocks
VendorMessage(role, content, name, blocks) ==
    [role |-> role, content |-> content, name |-> name, blocks |-> blocks]

\* what the loop of _transformMessages pushes for one message
formatMessage(message) ==
    IF message.role \notin {"user", "assistant"} THEN <<>>
    ELSE <<VendorMessage(message.role, message.content, Absent, <<>>)>>
         \o (IF message.role = "user" /\ message.function_call_result # <<>>
             THEN <<VendorMessage("tool", message.function_call_result[1].content,
                                  message.function_call_result[1].name, <<>>)>>
             ELSE <<>>)
         \o (IF message.role = "assistant" /\ message.function_call # <<>>
             THEN <<VendorMessage("assistant", Absent, Absent,
                       <<ToolUseBlock(message.function_call[1].name,
                                      JSONparseObject(message.function_call[1].arguments).value)>>)>>
             ELSE <<>>)

\* JSON.parse(message.function_call.arguments) throws
formatThrows(message) ==
    /\ message.role = "assistant"
    /\ message.function_call # <<>>
    /\ ~JSONparseObject(message.function_call[1].arguments).ok

\* a loop that puts each message before the ones already formatted
RECURSIVE transformMessagesNewestFirst(_)
transformMessagesNewestFirst(msgs) ==
    IF msgs = <<>> THEN <<>>
    ELSE transformMessagesNewestFirst(Tail(msgs)) \o formatMessage(Head(msgs))

\* AnthropicProvider._transformMessages: formattedMessages
RECURSIVE transformMessages(_)
transformMessages(msgs) ==
    IF msgs = <<>> THEN <<>>
    ELSE formatMessage(Head(msgs)) \o transformMessages(Tail(msgs))

\* array.join('\n') of string contents
RECURSIVE joinContents(_)
joinContents(contents) ==
    IF contents = <<>> THEN <<>>
    ELSE IF Len(contents) = 1 THEN <<contents[1]>>
    ELSE <<contents[1], "\n">> \o joinContents(Tail(contents))

\* transformed.system: set only when there are several system messages
systemOf(msgs) ==
    LET systemMessages == SelectSeq(msgs, LAMBDA m : m.role = "system")
    IN  IF Len(systemMessages) > 1
        THEN joinContents([k \in 1..Len(systemMessages) |-> systemMessages[k].content])
        ELSE <<>>

\* a tool of the request, in the canonical or in the vendor's own form
CanonicalTool(name, description, parameters) ==
    [type |-> "function",
     function |-> <<[name |-> name, description |-> description, parameters |-> parameters]>>,
     functions |-> <<>>, name |-> Absent, description |-> Absent, input_schema |-> Absent]

NativeTool(name, description, schema) ==
    [type |-> "custom", function |-> <<>>, functions |-> <<>>, name |-> name,
     description |-> description, input_schema |-> schema]

\* [{ type: 'function', functions: options.functions }]
FunctionsWrapper(functions) ==
    [type |-> "function", function |-> <<>>, functions |-> functions, name |-> Absent,
     description |-> Absent, input_schema |-> Absent]

\* const tools = options.tools || (options.functions ? [...] : [])
toolsOf(request) ==
    IF request.tools # <<>> THEN request.tools[1]
    ELSE IF request.functions # <<>> THEN <<FunctionsWrapper(request.functions[1])>>
    ELSE <<>>

\* tool.function.name is read of a tool that has no function
toolThrows(tool) == tool.type = "function" /\ tool.function = <<>>

\* the callback of tools.map
mapTool(tool) ==
    IF tool.type = "function"
    THEN [name |-> tool.function[1].name, description |-> tool.function[1].description,
          input_schema |-> tool.function[1].parameters]
    ELSE [name |-> tool.name, description |-> tool.description,
          input_schema |-> tool.input_schema]

\* the messages, system and tools of the body _transformOptions returns, or
\* what it throws
transformRequest(request) ==
    IF \E k \in 1..Len(request.messages) : formatThrows(request.messages[k])
    THEN [NoVendorBody EXCEPT !.done = TRUE, !.threw = "SyntaxError"]
    ELSE IF (request.tools # <<>> \/ request.functions # <<>>)
            /\ \E k \in 1..Len(toolsOf(request)) : toolThrows(toolsOf(request)[k])
    THEN [NoVendorBody EXCEPT !.done = TRUE, !.threw = "TypeError"]
    ELSE [done |-> TRUE, threw |-> "none",
          messages |-> transformMessages(request.messages),
          system |-> systemOf(request.messages),
          tools |-> IF request.tools # <<>> \/ request.functions # <<>>
                    THEN <<[k \in 1..Len(toolsOf(request)) |-> mapTool(toolsOf(request)[k])]>>
                    ELSE <<>>]

CompactArguments == <<"{", "\"", "city", "\"", ":", "\"", "Paris", "\"", "}">>

SpacedArguments == <<"{", SP, "\"", "city", "\"", SP, ":", SP, "\"", "Paris", "\"", SP, "}">>

RequestMessages ==
    { Message("system", "Be brief"),
      Message("system", "Answer in English"),
      Message("user", "Hi"),
      [Message("user", "Here it is") EXCEPT
          !.function_call_result = <<[name |-> "get_weather", content |-> "sunny"]>>],
      Message("assistant", "Hello"),
      [Message("assistant", "Calling") EXCEPT
          !.function_call = <<[name |-> "get_weather", arguments |-> SpacedArguments]>>],
      [Message("assistant", "Asking") EXCEPT
          !.function_call = <<[name |-> "get_time", arguments |-> <<"{", "}">>]>>],
      [Message("assistant", "Trying") EXCEPT
          !.function_call = <<[name |-> "get_time", arguments |-> <<"{", "\"", "zone">>]>>],
      Message("tool", "sunny, 20 degrees") }

WeatherFunction == [name |-> "get_weather", description |-> "weather of a place",
                    parameters |-> "weather-schema"]

TimeFunction == [name |-> "get_time", description |-> "time of day",
                 parameters |-> "time-schema"]

toolFor(fn) == CanonicalTool(fn.name, fn.description, fn.parameters)

RequestTools ==
    { <<>>,
      << <<toolFor(WeatherFunction)>> >>,
      << <<toolFor(WeatherFunction), toolFor(TimeFunction)>> >>,
      << <<NativeTool("search", "web search", "search-schema")>> >> }

RequestFunctions ==
    { <<>>, << <<WeatherFunction>> >>, << <<TimeFunction, WeatherFunction>> >> }

InitTranslate ==
    /\ InitLiteLLM
    /\ InitDecoder
    /\ InitAdapter
    /\ InitConcurrent
    /\ InitTransformer
    /\ InitConverter
    /\ InitEvents
    /\ InitCaller
    /\ mRequest \in [messages : UNION {[1..n -> RequestMessages] : n \in 0..MaxMessages},
                     tools : RequestTools, functions : RequestFunctions]
    /\ mBody = NoVendorBody

\* completion / streamCompletion call this._transformOptions(options)
TransformRequest ==
    /\ ~mBody.done
    /\ mBody' = transformRequest(mRequest)
    /\ UNCHANGED <<registry, query, facade, decoding, adapting, concurrent, converting,
                   mRequest, sEvents, sChunks, heap, cCall>>

NextTranslate == TransformRequest

SpecTranslate == InitTranslate /\ [][NextTranslate]_vars

----------------------------------------------------------------------------
(* _convertStreamChunkToOpenAIFormat: the canonical chunk AnthropicProvider  *)
(* makes of each decoded event of a stream.                                   *)

\* finish_reason: null
NullReason == "null"

Delta(type, text, name, input) == [type |-> type, text |-> text, name |-> name, input |-> input]

Event(type, delta) == [type |-> type, delta |-> delta]

\* const openAIFormat = {...}: delta {} and finish_reason null
openAIFormat(delta, finish_reason) ==
    [object |-> "chat.completion.chunk",
     choices |-> <<[index |-> 0, delta |-> delta, finish_reason |-> finish_reason]>>]

EmptyDelta == [content |-> <<>>, function_call |-> <<>>]

convertStreamChunkToOpenAIFormat(chunk) ==
    IF chunk.type = "content_block_start" THEN openAIFormat(EmptyDelta, NullReason)
    ELSE IF chunk.type = "content_block_delta"
    THEN LET delta == chunk.delta[1]
         IN  IF delta.type = "text_delta" /\ delta.text # <<>>
             THEN openAIFormat([EmptyDelta EXCEPT !.content = <<delta.text>>], NullReason)
             ELSE IF delta.type = "tool_use"
             THEN openAIFormat(
                      [EmptyDelta EXCEPT !.function_call =
                          <<[name |-> IF delta.name # Absent THEN delta.name ELSE "",
                             arguments |-> IF delta.input # <<>>
                                           THEN JSONstringify(delta.input[1])
                                           ELSE <<>>]>>],
                      "function_call")
             ELSE openAIFormat(EmptyDelta, NullReason)
    ELSE IF chunk.type \in {"content_block_stop", "message_stop"}
    THEN openAIFormat(EmptyDelta, "stop")
    ELSE openAIFormat(EmptyDelta, NullReason)

NoDelta == Delta(Absent, <<>>, Absent, <<>>)

\* the events of a stream of the Anthropic API
StreamEvents ==
    {Event(type, <<>>) : type \in {"message_start", "content_block_start", "ping",
                                   "content_block_stop", "message_stop", "error"}}
    \cup {Event("message_delta", <<NoDelta>>)}
    \cup {Event("content_block_delta", <<delta>>) : delta \in
            {Delta("text_delta", <<"Hi">>, Absent, <<>>),
             Delta("text_delta", <<>>, Absent, <<>>),
             Delta("tool_use", <<>>, "get_weather", << << <<"city", "Paris">> >> >>),
             Delta("tool_use", <<>>, Absent, <<>>),
             Delta("input_json_delta", <<>>, Absent, <<>>),
             Delta("thinking_delta", <<>>, Absent, <<>>)}}

InitStream ==
    /\ InitLiteLLM
    /\ InitDecoder
    /\ InitAdapter
    /\ InitConcurrent
    /\ InitTransformer
    /\ InitConverter
    /\ InitMessages
    /\ InitCaller
    /\ sEvents \in UNION {[1..n -> StreamEvents] : n \in 0..MaxEvents}
    /\ sChunks = <<>>

\* for (const processedChunk of processedChunks) yield
\* this._convertStreamChunkToOpenAIFormat(processedChunk, options)
ConvertStreamChunk ==
    /\ sEvents # <<>>
    /\ sChunks' = Append(sChunks, [event |-> Head(sEvents),
                                   chunks |-> <<convertStreamChunkToOpenAIFormat(Head(sEvents))>>])
    /\ sEvents' = Tail(sEvents)
    /\ UNCHANGED <<registry, query, facade, decoding, adapting, concurrent, converting,
                   mRequest, mBody, heap, cCall>>

NextStream == ConvertStreamChunk

SpecStream == InitStream /\ [][NextStream]_vars

----------------------------------------------------------------------------
(* The request objects of one facade call.  heap holds the objects by         *)
(* reference, so that an assignment to a property of an object shows in       *)
(* every holder of that reference.  The arrays of messages are values: no     *)
(* code path changes an array in place (filter and map build new ones).       *)

\* handing on the object itself, with the property assigned in place
assignInPlace(h, ref, key, value) ==
    [heap |-> [h EXCEPT ![ref] = [@ EXCEPT ![key] = value]], ref |-> ref]

\* { ...h[ref], key: value }: a new object
spreadWith(h, ref, key, value) ==
    [heap |-> Append(h, [h[ref] EXCEPT ![key] = value]), ref |-> Len(h) + 1]

\* actualModel of the resolution: the part after the first separator of a
\* "provider/model" identifier, else the identifier
actualModelOf(modelString) == Or(parseModelString(modelString).model, modelString)

\* options.messages = options.messages.filter(m => m.role !== 'system'), done
\* by AnthropicProvider._transformOptions when there are several system messages
dropSystem(h, ref) ==
    IF Len(SelectSeq(h[ref].messages, LAMBDA role : role = "system")) > 1
    THEN [h EXCEPT ![ref].messages = SelectSeq(@, LAMBDA role : role # "system")]
    ELSE h

\* what the adapter does with the options it is called with, up to its request
adapterPrepares(adapter, method, h, ref) ==
    LET own == IF method = "streamCompletion" /\ adapter \in {"OpenAI", "Anthropic"}
               THEN spreadWith(h, ref, "stream", "true")
               ELSE IF adapter = "proxy"
               THEN spreadWith(h, ref, "stream",
                               IF method = "streamCompletion" THEN "true" ELSE h[ref].stream)
               ELSE [heap |-> h, ref |-> ref]
    IN  IF adapter = "Anthropic" THEN dropSystem(own.heap, own.ref) ELSE own.heap

CallerAdapters == {"OpenAI", "Anthropic", "proxy", "none"}

CallerRequests ==
    [model : {<<"gpt-">>, <<"openai", Sep, "claude-">>},
     messages : UNION {[1..n -> {"system", "user"}] : n \in 0..MaxMessages},
     stream : {Absent}]

\* the caller builds a request object and calls completion / streamCompletion;
\* adapter is what getProviderForModel will resolve it to
CallerCalls(op, adapter, request) ==
    /\ cCall.phase = "idle"
    /\ heap' = <<request>>
    /\ cCall' = [op |-> op, adapter |-> adapter, asked |-> request, request |-> 1,
                 passed |-> 0, phase |-> "called"]
    /\ UNCHANGED <<registry, query, facade, decoding, adapting, concurrent, converting,
                   mRequest, mBody, sEvents, sChunks>>

\* the facade: not-found check, completionOptions, and the call of the adapter
FacadeDispatches ==
    /\ cCall.phase = "called"
    /\ IF cCall.adapter = "none"
       THEN /\ cCall' = [cCall EXCEPT !.phase = "thrown"]
            /\ heap' = heap
       ELSE LET made == spreadWith(heap, cCall.request, "model",
                                   actualModelOf(heap[cCall.request].model))
            IN  /\ heap' = made.heap
                /\ cCall' = [cCall EXCEPT !.passed = made.ref, !.phase = "dispatched"]
    /\ UNCHANGED <<registry, query, facade, decoding, adapting, concurrent, converting,
                   mRequest, mBody, sEvents, sChunks>>

\* the adapter builds its request from the options it was given
AdapterPrepares ==
    /\ cCall.phase = "dispatched"
    /\ heap' = adapterPrepares(cCall.adapter, cCall.op, heap, cCall.passed)
    /\ cCall' = [cCall EXCEPT !.phase = "requested"]
    /\ UNCHANGED <<registry, query, facade, decoding, adapting, concurrent, converting,
                   mRequest, mBody, sEvents, sChunks>>

\* the request succeeds or fails, and the call returns or throws
CallSettles(how) ==
    /\ cCall.phase = "requested"
    /\ cCall' = [cCall EXCEPT !.phase = how]
    /\ UNCHANGED <<registry, query, facade, decoding, adapting, concurrent, converting,
                   mRequest, mBody, sEvents, sChunks, heap>>

NextCaller ==
    \/ \E op \in {"completion", "streamCompletion"}, adapter \in CallerAdapters,
          request \in CallerRequests : CallerCalls(op, adapter, request)
    \/ FacadeDispatches
    \/ AdapterPrepares
    \/ \E how \in {"returned", "thrown"} : CallSettles(how)

SpecCaller == Init /\ [][NextCaller]_vars

----------------------------------------------------------------------------
(* Vocabulary of the properties: the identifier as the specification reads it *)

SepPositions(s) == {i \in 1..Len(s) : s[i] = Sep}

\* the string is "p/m": exactly one separator, something on either side
TwoSegments(s) ==
    /\ Cardinality(SepPositions(s)) = 1
    /\ s[1] # Sep
    /\ s[Len(s)] # Sep

TheSep(s) == CHOOSE i \in SepPositions(s) : TRUE

FirstSegment(s) == SubSeq(s, 1, TheSep(s) - 1)

SecondSegment(s) == SubSeq(s, TheSep(s) + 1, Len(s))

\* the model name an identifier stands for
ModelName(s) == IF TwoSegments(s) THEN SecondSegment(s) ELSE s

Elems(seq) == {seq[i] : i \in 1..Len(seq)}

\* the i-th registered proxy claims the identifier
Claims(i, id) ==
    \/ ModelName(id) \in Elems(proxies[i].models)
    \/ id \in Elems(proxies[i].models)
    \/ Star \in Elems(proxies[i].models)

Claimants(id) == {i \in 1..Len(proxies) : Claims(i, id)}

Registered == Elems(providers)

\* the identifier names a registered provider explicitly
ExplicitRegistered(id) == TwoSegments(id) /\ toLowerCase(FirstSegment(id)) \in Registered

Resolving == lastCall.fn = "getProviderForModel"

----------------------------------------------------------------------------
(* Properties of the resolver, under Spec *)

\* C1: whenever some registered proxy claims the identifier, getProviderForModel
\* returns the adapter of a registered proxy, never a directly registered
\* provider, also when the identifier names a registered provider or its model
\* name matches a registered provider's prefix or supportsModel.
C1_ProxyPrecedence ==
    (Resolving /\ Claimants(lastCall.arg) # {}) =>
        /\ resolveRet.provider.kind = "proxy"
        /\ resolveRet.provider.index \in 1..Len(proxies)
        /\ resolveRet.provider = proxies[resolveRet.provider.index].provider

\* a proxy won although the identifier names the registered provider openai,
\* whose prefix and supportsModel also match the model name
C1_Witness ==
    /\ Resolving
    /\ lastCall.arg = <<"openai", Sep, "gpt-">>
    /\ OPENAI \in Registered
    /\ Claimants(lastCall.arg) # {}
    /\ resolveRet.provider.kind = "proxy"

\* C3 (state part): the proxy a resolution returns is the earliest registered
\* one that claims the identifier.
C3_EarliestClaimant ==
    (Resolving /\ Claimants(lastCall.arg) # {}) =>
        resolveRet.provider = ProxyAdapter(Min(Claimants(lastCall.arg)))

\* C3 (step part): no step removes or reorders registered proxies.
C3_AppendOnly ==
    /\ Len(proxies') >= Len(proxies)
    /\ SubSeq(proxies', 1, Len(proxies)) = proxies

\* C3: resolution returns the earliest-registered proxy whose models contain
\* the parsed model name, the raw identifier or "*", never a later one, and
\* registered proxies are never removed or reordered.
C3_FirstMatchWins == [](C3_EarliestClaimant) /\ [][C3_AppendOnly]_vars

\* two registered proxies claim the identifier and the first one was returned
C3_Witness ==
    /\ Resolving
    /\ Cardinality(Claimants(lastCall.arg)) >= 2
    /\ resolveRet.provider = ProxyAdapter(1)

Wildcards == {i \in 1..Len(proxies) : Star \in Elems(proxies[i].models)}

\* C4: with a wildcard proxy registered (models containing "*", the default of
\* createProxy), every identifier resolves to a proxy: to the wildcard proxy
\* itself unless an earlier-registered proxy claims the identifier, and then
\* to that one; so completion/streamCompletion never take their
\* 'No provider found' branch.
C4_WildcardCatchesAll ==
    (Resolving /\ Wildcards # {}) =>
        LET w       == Min(Wildcards)
            earlier == {i \in Claimants(lastCall.arg) : i < w}
        IN  /\ resolveRet.provider =
                   ProxyAdapter(IF earlier = {} THEN w ELSE Min(earlier))
            /\ ~NoProviderFound(resolveRet)

\* a default-models proxy, registered second, took an identifier that the
\* first proxy does not claim and that no provider supports
C4_Witness ==
    /\ Resolving
    /\ Len(proxies) = 2
    /\ proxies[2].models = <<Star>>
    /\ 1 \notin Claimants(lastCall.arg)
    /\ lastCall.arg = <<"constructor">>
    /\ resolveRet.provider = ProxyAdapter(2)

\* C5: with no proxy claiming it, an identifier "p/m" whose p (lower-cased) is
\* a registered provider type resolves to provider p with model m, whatever
\* the prefix table or supportsModel say about m; and the bare "gpt-..." name
\* resolves to openai with the same model name as "openai/gpt-...".
C5_ExplicitProvider ==
    (Resolving /\ Claimants(lastCall.arg) = {}) =>
        /\ ExplicitRegistered(lastCall.arg) =>
              resolveRet =
                  [ provider    |-> ProviderAdapter(toLowerCase(FirstSegment(lastCall.arg))),
                    actualModel |-> SecondSegment(lastCall.arg) ]
        /\ (lastCall.arg = <<"gpt-">> /\ OPENAI \in Registered) =>
              resolveRet = [provider |-> ProviderAdapter(OPENAI), actualModel |-> <<"gpt-">>]

\* "openai/claude-..." went to openai although anthropic is registered and the
\* prefix table and supportsModel give the model name to anthropic
C5_Witness ==
    /\ Resolving
    /\ Claimants(lastCall.arg) = {}
    /\ lastCall.arg = <<"openai", Sep, "claude-">>
    /\ Registered = {OPENAI, ANTHROPIC}
    /\ resolveRet = [provider |-> ProviderAdapter(OPENAI), actualModel |-> <<"claude-">>]

\* the registered provider types of the prefix table whose prefix matches the
\* name, by their place in the table
RegisteredPrefixHits(name) ==
    {i \in 1..Len(MODEL_PREFIXES) :
        /\ startsWith(name, MODEL_PREFIXES[i].prefix)
        /\ MODEL_PREFIXES[i].providerType \in Registered}

\* C6: with no proxy claiming the identifier and no registered explicit
\* provider, resolution selects the first provider type of the prefix table
\* whose prefix matches the model name and that is registered.
C6_PrefixFallback ==
    (/\ Resolving
     /\ Claimants(lastCall.arg) = {}
     /\ ~ExplicitRegistered(lastCall.arg)
     /\ RegisteredPrefixHits(ModelName(lastCall.arg)) # {}) =>
        resolveRet.provider =
            ProviderAdapter(
                MODEL_PREFIXES[Min(RegisteredPrefixHits(ModelName(lastCall.arg)))].providerType)

\* the registered providers that declare support for the name, by their place
\* in the order of registration
Supporters(name) == {i \in 1..Len(providers) : supportsModel(providers[i], name)}

\* C7 (state part): with no proxy, no registered explicit provider and no
\* registered prefix-table provider, resolution returns the first registered
\* provider, in registration order, whose supportsModel accepts the model
\* name, with the model name unchanged.
C7_FirstSupporter ==
    (/\ Resolving
     /\ Claimants(lastCall.arg) = {}
     /\ ~ExplicitRegistered(lastCall.arg)
     /\ RegisteredPrefixHits(ModelName(lastCall.arg)) = {}
     /\ Supporters(ModelName(lastCall.arg)) # {}) =>
        resolveRet =
            [ provider    |-> ProviderAdapter(providers[Min(Supporters(ModelName(lastCall.arg)))]),
              actualModel |-> ModelName(lastCall.arg) ]

\* C7 (step part): registering never changes the relative order of the
\* provider types that are already registered.
C7_OrderKept == SubSeq(providers', 1, Len(providers)) = providers

\* C7: the self-declaration fallback asks the registered providers in the
\* order of their registration and takes the first that accepts, model name
\* unchanged; registering a type again does not change the order.
C7_SelfDeclaration == [](C7_FirstSupporter) /\ [][C7_OrderKept]_vars

\* C6, C7 apart from the property names an object literal inherits: the
\* prefix fallback and the self-declaration fallback are as stated for every
\* identifier whose first segment is not such a name.
OwnKeysOnly ==
    ~(TwoSegments(lastCall.arg)
        /\ toLowerCase(FirstSegment(lastCall.arg)) \in ObjectPrototypeKeys)

FallbacksApartFromInheritedKeys ==
    (Resolving /\ OwnKeysOnly) => (C6_PrefixFallback /\ C7_FirstSupporter)

----------------------------------------------------------------------------
(* Properties of parseModelString, under SpecParse *)

Parsing == lastCall.fn = "parseModelString"

C10_ResultAsStated ==
    Parsing =>
        parseRet = IF TwoSegments(lastCall.arg)
                   THEN [provider |-> FirstSegment(lastCall.arg),
                         model    |-> SecondSegment(lastCall.arg)]
                   ELSE [provider |-> Null, model |-> lastCall.arg]

C10_RegistryUntouched == Parsing' => (providers' = providers /\ proxies' = proxies)

\* C10 as stated: the provider returned is the first segment p itself, the
\* model the second segment m, exactly for two non-empty segments; otherwise
\* null and the whole string; the registry is left alone.
C10_ParseAsStated == [](C10_ResultAsStated) /\ [][C10_RegistryUntouched]_vars

C10_ParseResult ==
    Parsing =>
        parseRet = IF TwoSegments(lastCall.arg)
                   THEN [provider |-> toLowerCase(FirstSegment(lastCall.arg)),
                         model    |-> SecondSegment(lastCall.arg)]
                   ELSE [provider |-> Null, model |-> lastCall.arg]

\* C10 (amended): parseModelString returns a value for every string: provider
\* p in lower case and model m exactly when the string is two non-empty
\* segments p and m around one "/", otherwise provider null and the whole
\* string as model; and the step leaves providers and proxies as they were.
C10_ParseLowerCased == [](C10_ParseResult) /\ [][C10_RegistryUntouched]_vars

\* "OpenAI/openai" was parsed, with providers and a proxy registered
C10_Witness ==
    /\ Parsing
    /\ lastCall.arg = <<"OpenAI", Sep, "openai">>
    /\ parseRet = [provider |-> <<"openai">>, model |-> <<"openai">>]
    /\ providers # <<>>
    /\ proxies # <<>>

\* the identifier is "p/m" and p, lower-cased or not, is no registered type
UnregisteredProvider(id) ==
    /\ TwoSegments(id)
    /\ FirstSegment(id) \notin Registered
    /\ toLowerCase(FirstSegment(id)) \notin Registered

\* C11 as stated: for "p/m" with p not registered, parseModelString returns
\* provider null and model m.
C11_UnregisteredIsNull ==
    (Parsing /\ UnregisteredProvider(lastCall.arg)) =>
        parseRet = [provider |-> Null, model |-> SecondSegment(lastCall.arg)]

\* C11 (amended): for "p/m" with p not registered, parseModelString returns
\* (it does not throw) provider p in lower case, not null, and model m
\* unchanged: the parse does not look at the registered providers.
C11_UnregisteredIsKept ==
    (Parsing /\ UnregisteredProvider(lastCall.arg)) =>
        parseRet = [provider |-> toLowerCase(FirstSegment(lastCall.arg)),
                    model    |-> SecondSegment(lastCall.arg)]

\* "openai/OpenAI" was parsed while anthropic alone is registered
C11_Witness ==
    /\ Parsing
    /\ lastCall.arg = <<"openai", Sep, "OpenAI">>
    /\ Registered = {ANTHROPIC}
    /\ parseRet = [provider |-> <<"openai">>, model |-> <<"OpenAI">>]

----------------------------------------------------------------------------
(* Properties of the facade, under SpecFacade *)

\* the call has gone through resolution
Dispatched == call.op # "none" /\ status # "created"

RoutedToProxy == Dispatched /\ target.provider.kind = "proxy"

TheProxy == proxies[target.provider.index]

C2_WitnessEmptyProxyModel ==
    /\ RoutedToProxy
    /\ call.options.model = <<"openai", Sep, "claude-">>
    /\ TheProxy.proxyModel = <<>>
    /\ sent[1].model = <<"claude-">>

\* C8: when resolution finds no adapter, completion and streamCompletion fail
\* with the provider-not-found error (LiteLLMError, status 400), no adapter is
\* invoked, nothing is fetched and no chunk is yielded.
C8_NotFoundError ==
    (Dispatched /\ ~IsAdapter(target.provider)) =>
        /\ status = "thrown"
        /\ result = ProviderNotFoundError
        /\ adapterCalls = <<>>
        /\ sent = <<>>
        /\ yielded = <<>>

\* C8 where resolution returned null: the error is the 400 and nothing was
\* called, fetched or yielded.
NotFoundWhenNull ==
    (Dispatched /\ target.provider = NoProvider) =>
        /\ status = "thrown"
        /\ result = ProviderNotFoundError
        /\ adapterCalls = <<>>
        /\ sent = <<>>
        /\ yielded = <<>>

\* C9: when an adapter is resolved, the facade calls that adapter once, with
\* the caller's request in which only `model` is replaced by the resolved
\* model name; completion returns what the adapter returned, and
\* streamCompletion has yielded exactly the chunks the adapter has yielded,
\* in order, at every moment.
C9_FacadeDelegates ==
    (Dispatched /\ IsAdapter(target.provider)) =>
        /\ adapterCalls = <<[adapter |-> target.provider,
                             method  |-> call.op,
                             options |-> [call.options EXCEPT !.model = target.actualModel]]>>
        /\ status = "returned" =>
              (adapterResult.kind = "value" /\ result = adapterResult)
        /\ status = "thrown" => result = adapterResult
        /\ yielded = adapterYielded

\* a stream through an adapter, the model name replaced, two different chunks
\* passed on and the stream ended
C9_Witness ==
    /\ call.op = "streamCompletion"
    /\ status = "done"
    /\ IsAdapter(target.provider)
    /\ call.options.model # target.actualModel
    /\ yielded = <<"c2", "c1">>

----------------------------------------------------------------------------
(* Properties of the chunk decoder, under SpecDecode *)

\* a data line that carries a JSON text, and the object it carries
ValidLine(line) == line \in {<<DataMarker, SP, text>> : text \in JsonTexts}

ObjectOf(line) == JsonObject(line[3])

SentinelLine == <<DataMarker, SP, "[DONE]">>

SentinelAt == {i \in 1..Len(lines) : lines[i] = SentinelLine}

\* the objects of the valid lines among the first n lines, in order
ValidObjects(n) ==
    LET valid == SelectSeq(SubSeq(lines, 1, n), ValidLine)
    IN  [i \in 1..Len(valid) |-> ObjectOf(valid[i])]

\* the fragment is N valid data lines, the sentinel line, and whatever follows
ValidThenSentinel ==
    /\ SentinelAt # {}
    /\ \A i \in 1..(Min(SentinelAt) - 1) : ValidLine(lines[i])

\* C12: a fragment of N valid data lines followed by the sentinel line decodes
\* to exactly the N objects, in order, and to nothing from the lines after the
\* sentinel, with the decoder of every adapter.
C12_SentinelStops ==
    (decoded.done /\ ValidThenSentinel) =>
        decoded.objects = ValidObjects(Min(SentinelAt) - 1)

\* C12 for the decoder of LiteLLM (the proxy adapters) and of OpenAIProvider
SentinelStopsProxyAndOpenAI ==
    (decoded.done /\ ValidThenSentinel /\ decoder # "Anthropic") =>
        decoded.objects = ValidObjects(Min(SentinelAt) - 1)

\* C13: where the fragment holds no sentinel, every valid data line is decoded,
\* in the order of the lines, whatever lines that do not parse stand before,
\* between or after them; the decoder returns and does not raise.
C13_SkipsMalformed ==
    (decoded.done /\ SentinelAt = {}) =>
        decoded.objects = ValidObjects(Len(lines))

\* a valid line, a line that is no JSON, a valid line: two objects
C13_Witness ==
    /\ decoded.done
    /\ decoder = "LiteLLM"
    /\ lines = << <<DataMarker, SP, "{a}">>, <<DataMarker, SP, "{oops">>,
                  <<DataMarker, SP, "{b}">> >>
    /\ decoded.objects = <<[id |-> "a"], [id |-> "b"]>>

----------------------------------------------------------------------------
(* Properties of one adapter call, under SpecAdapter *)

Streaming == aCall.method = "streamCompletion"

IsPrefix(a, b) == Len(a) <= Len(b) /\ SubSeq(b, 1, Len(a)) = a

\* the lines of the fragments read so far, in the order they came
RECURSIVE Flatten(_)
Flatten(fragments) ==
    IF fragments = <<>> THEN <<>> ELSE Head(fragments) \o Flatten(Tail(fragments))

\* those of them that stand before the first sentinel line
BeforeSentinel(ls) ==
    LET at == {i \in 1..Len(ls) : ls[i] = SentinelLine}
    IN  IF at = {} THEN ls ELSE SubSeq(ls, 1, Min(at) - 1)

\* the chunks the stream owes for them
ChunksBeforeSentinel ==
    LET valid == SelectSeq(BeforeSentinel(Flatten(received)), ValidLine)
    IN  [i \in 1..Len(valid) |-> streamChunkOf(aCall.adapter, ObjectOf(valid[i]))]

\* C14 (sentinel): no chunk is yielded for a line that comes after the
\* sentinel, in the same fragment or in a later one.
C14_NothingAfterSentinel == Streaming => IsPrefix(delivered, ChunksBeforeSentinel)

\* C14 (end of stream): once the transport has reported the end, the
\* sequence is complete.
C14_EndCompletes == ended => gen = "done"

\* C14: a streamCompletion sequence yields nothing more once the sentinel has
\* been decoded, also from fragments delivered after it, and completes when
\* the transport reports the end of the stream.
C14_TerminatesOnSentinelOrEnd == C14_NothingAfterSentinel /\ C14_EndCompletes

\* C15 (state part): while the body waits for the transport, a next() of the
\* consumer is pending and no decoded chunk is left undelivered.
C15_WaitsForConsumer ==
    (Streaming /\ gen \in {"requesting", "reading", "readingText"}) =>
        (pulling /\ buffer = <<>>)

\* C15 (step part): a fragment is read, and the request is made, only for a
\* pending next() with nothing left to deliver; a chunk is yielded only to a
\* next() of the consumer.
C15_ReadsOnDemand ==
    /\ Len(received') > Len(received) => (pulling /\ buffer = <<>>)
    /\ (Streaming /\ fetches' > fetches) => pulls' > pulls
    /\ delivered' # delivered => (pulling \/ pulls' > pulls)
    /\ Len(delivered') <= pulls'

\* C15: streaming is pull-driven: an adapter's streamCompletion reads the next
\* fragment only after the consumer has asked for a chunk and every chunk of
\* the fragment read before has been delivered; nothing is read or yielded
\* while the consumer is not pulling.
C15_PullDriven == [](C15_WaitsForConsumer) /\ [][C15_ReadsOnDemand]_vars

\* two fragments read on three pulls; the second chunk of the first fragment
\* waited in the generator for the second pull
C15_Witness ==
    /\ Streaming
    /\ aCall.body = "reader"
    /\ gen = "yielded"
    /\ ~pulling
    /\ pulls = 3
    /\ Len(received) = 2
    /\ Len(received[1]) = 2
    /\ Len(delivered) = 3

\* C16 (state part): a call that has ended, in whatever way, holds no stream
\* reader or stream.
C16_Released == gen \in {"done", "threw"} => handle # "held"

\* C16 (step part): after the consumer has closed the sequence or the abort
\* signal has fired, no chunk is yielded.
C16_NoChunkAfterCancel == (aborted \/ closed) => delivered' = delivered

\* C16: on cancellation or early termination (close by the consumer, abort
\* signal, failed read) the stream yields no further chunk and the reader or
\* stream is released on every exit path, for every adapter and body kind.
C16_CancellationStops == [](C16_Released) /\ [][C16_NoChunkAfterCancel]_vars

\* C16 without the abort signal: the reader or stream is released on every
\* exit, and a closed sequence yields nothing more.
ClosedStreamStops == [](C16_Released) /\ [][closed => delivered' = delivered]_vars

\* C18 (non-2xx): the call fails with LiteLLMError carrying the status and
\* the parsed body, {} when the body is no JSON; nothing is returned or
\* yielded and one request only was made.
C18_NonSuccess ==
    response.kind = "status" =>
        /\ gen = "threw"
        /\ outcome = AdapterOutcome("LiteLLMError", response.status,
                                    IF response.json THEN response.text ELSE "{}", "none")
        /\ delivered = <<>>
        /\ fetches = 1

\* C18 (network failure): the call fails with an error that wraps the cause.
C18_NetworkFailure ==
    response.kind = "network" =>
        /\ gen = "threw"
        /\ outcome.kind = "LiteLLMError"
        /\ outcome.originalError = response.text
        /\ delivered = <<>>
        /\ fetches = 1

\* C18: a non-2xx answer of the backend surfaces as an error with the HTTP
\* status and the parsed error body, with no result, no chunk and no second
\* request; a network failure surfaces wrapped in an error that carries the
\* original cause.
C18_UpstreamSurfaced == C18_NonSuccess /\ C18_NetworkFailure

\* C18 for the provider adapters, which go through LiteLLMClient.request
SurfacedByProviders == aCall.adapter # "proxy" => C18_UpstreamSurfaced

----------------------------------------------------------------------------
(* Properties of concurrent facade calls, under SpecConcurrent *)

\* what call i owes its caller, from its own request and its own adapter
AsAlone(i) ==
    LET c == calls[i]
        b == backend[i]
        resolution == getProviderForModel(b.request.model)
    IN  /\ c.options = b.request
        /\ c.status \notin {"idle", "created"} =>
              /\ c.target = resolution
              /\ b.passed = IF IsAdapter(resolution.provider)
                            THEN <<[adapter |-> resolution.provider, method |-> c.op,
                                    options |-> [b.request EXCEPT
                                                    !.model = resolution.actualModel]]>>
                            ELSE <<>>
        /\ c.yielded = b.chunks
        /\ \A k \in 1..Len(c.yielded) : c.yielded[k] = <<i, k>>
        /\ c.status = "returned" => c.result = Outcome("value", 0, i)
        /\ c.status \in {"returned", "done"} => b.settled.kind \in {"value", "done"}
        /\ (c.status = "thrown" /\ b.passed # <<>>) => c.result = b.settled

\* C17 (state part): each call in flight has the adapter, the request, the
\* result and the chunks it would have alone.
C17_EachAsAlone == \A i \in CallIds : AsAlone(i)

\* C17 (step part): no step of a request changes providers or proxies.
C17_RegistryReadOnly ==
    (calls' # calls \/ backend' # backend) => (providers' = providers /\ proxies' = proxies)

\* C17: under any interleaving of completion/streamCompletion calls in flight,
\* each call resolves to the adapter and gives the result or chunks it gives
\* alone, and no request-time step changes the registered providers or
\* proxies.
C17_Independent == [](C17_EachAsAlone) /\ [][C17_RegistryReadOnly]_vars

\* two streams in flight together, one through a proxy and one through a
\* provider, each with its own chunks
C17_Witness ==
    /\ calls["A"].status = "streaming"
    /\ calls["B"].status = "streaming"
    /\ calls["A"].target.provider.kind = "proxy"
    /\ calls["B"].target.provider.kind = "provider"
    /\ Len(calls["A"].yielded) = 2
    /\ Len(calls["B"].yielded) = 1

----------------------------------------------------------------------------
(* Properties of the request body, under SpecTransform *)

\* the request itself sets parameter p
RequestSets(p) == tOptions.params[p] # Absent

DefaultSent(p) ==
    (~RequestSets(p) /\ tDefaults[p] # Absent) => tBody.params[p] = tDefaults[p]

RequestWins(p) == RequestSets(p) => tBody.params[p] = tOptions.params[p]

\* C19: for the OpenAI and the Anthropic adapter, a default parameter is sent
\* with every request that does not set it, and a parameter the request sets
\* is sent with the request's value.
C19_DefaultsAndPrecedence ==
    tBody.sent => \A p \in ParamNames : DefaultSent(p) /\ RequestWins(p)

\* what does hold: the adapter that inherits Provider._transformOptions
DefaultsHonouredByOpenAI ==
    (tBody.sent /\ tAdapter = "OpenAI") => \A p \in ParamNames : DefaultSent(p) /\ RequestWins(p)

\* and, for AnthropicProvider, the temperature alone
AnthropicTemperature ==
    (tBody.sent /\ tAdapter = "Anthropic") =>
        DefaultSent("temperature") /\ RequestWins("temperature")

----------------------------------------------------------------------------
(* Properties of the converted response, under SpecConvert *)

ToolUses == {k \in 1..Len(vResponse.content) : vResponse.content[k].type = "tool_use"}

HasToolUse == vResponse.array /\ ToolUses # {}

HasText == vResponse.array /\ \E k \in 1..Len(vResponse.content) :
                                   vResponse.content[k].type = "text"

\* the function call an invocation block stands for: its name, and its input
\* as JSON text
CallOf(block) == [name |-> block.name, arguments |-> JSONstringify(block.input)]

IsJsonObjectText(text) ==
    /\ Len(text) >= 2
    /\ text[1] = "{"
    /\ text[Len(text)] = "}"

\* C20 as stated: a response with a tool invocation and no text becomes a
\* message with content null, function_call populated from the invocation, and
\* finish_reason "function_call"; and whenever function_call is populated,
\* content is null.
C20_ToolInvocationAsStated ==
    vConverted.done =>
        /\ (HasToolUse /\ ~HasText) =>
              /\ vConverted.content = Null
              /\ \E k \in ToolUses : vConverted.function_call = <<CallOf(vResponse.content[k])>>
              /\ vConverted.finish_reason = "function_call"
        /\ vConverted.function_call # <<>> => vConverted.content = Null

\* C20 (amended): with a tool invocation the message has content null and
\* the function_call of the last invocation block, its arguments a JSON
\* text, whether or not there is text; function_call is populated only
\* then; finish_reason follows stop_reason alone: "function_call" for
\* "tool_use", "length" for "max_tokens", otherwise "stop".
C20_ToolInvocation ==
    vConverted.done =>
        /\ HasToolUse =>
              LET last == CHOOSE k \in ToolUses : \A j \in ToolUses : j <= k
              IN  /\ vConverted.content = Null
                  /\ vConverted.function_call = <<CallOf(vResponse.content[last])>>
                  /\ IsJsonObjectText(vConverted.function_call[1].arguments)
        /\ ~HasToolUse => vConverted.function_call = <<>>
        /\ vConverted.function_call # <<>> => vConverted.content = Null
        /\ vConverted.finish_reason = "function_call" <=> vResponse.stop_reason = "tool_use"
        /\ vConverted.finish_reason = "length" <=> vResponse.stop_reason = "max_tokens"
        /\ vConverted.finish_reason \in {"function_call", "length", "stop"}

\* a converted response with text and then a tool invocation, stopped for
\* tool use
C20_Witness ==
    /\ vConverted.done
    /\ HasToolUse
    /\ HasText
    /\ vResponse.stop_reason = "tool_use"
    /\ vConverted.content = Null
    /\ vConverted.function_call =
          <<[name |-> "get_weather",
             arguments |-> <<"{", "\"", "city", "\"", ":", "\"", "Paris", "\"", "}">>]>>
    /\ vConverted.finish_reason = "function_call"

----------------------------------------------------------------------------
(* Line selection of the decoder, under SpecDecode *)

\* the trimmed form of the line starts with the marker
Marked(line) == startsWith(trim(line), <<DataMarker>>)

\* what follows the marker, without the surrounding whitespace
Remainder(line) == trim(Tail(trim(line)))

RECURSIVE SelectedObjects(_)
SelectedObjects(ls) ==
    IF ls = <<>> THEN <<>>
    ELSE IF Marked(Head(ls)) /\ Remainder(Head(ls)) = Done THEN <<>>
    ELSE IF Marked(Head(ls)) /\ JSONparse(Remainder(Head(ls))) # SyntaxError
    THEN <<JSONparse(Remainder(Head(ls)))>> \o SelectedObjects(Tail(ls))
    ELSE SelectedObjects(Tail(ls))

\* C25: up to the sentinel, the decoders of LiteLLM and OpenAIProvider give
\* the parsed object of every line whose trimmed form starts with `data:` and
\* whose remainder is valid JSON, with or without a space after the colon and
\* with or without whitespace before the marker, and nothing for other lines.
C25_LineSelection ==
    (decoded.done /\ decoder \in {"LiteLLM", "OpenAI"}) =>
        decoded.objects = SelectedObjects(lines)

\* what does hold: the same for fragments whose marked lines all open with
\* the marker and one space
PlainlyMarked(line) == Marked(line) => (Len(line) >= 2 /\ line[1] = DataMarker /\ line[2] = SP)

LineSelectionOfPlainLines ==
    (decoded.done /\ decoder \in {"LiteLLM", "OpenAI"}
        /\ \A k \in 1..Len(lines) : PlainlyMarked(lines[k])) =>
        decoded.objects = SelectedObjects(lines)

----------------------------------------------------------------------------
(* Properties of the translated request, under SpecTranslate *)

Translated == mBody.done /\ mBody.threw = "none"

SystemContents ==
    LET systemMessages == SelectSeq(mRequest.messages, LAMBDA m : m.role = "system")
    IN  [k \in 1..Len(systemMessages) |-> systemMessages[k].content]

\* the contents in order, one per line
RECURSIVE Merged(_)
Merged(contents) ==
    IF Len(contents) <= 1 THEN contents
    ELSE <<Head(contents), "\n">> \o Merged(Tail(contents))

NoSystemTurn == \A k \in 1..Len(mBody.messages) : mBody.messages[k].role # "system"

\* C21: a request with one or more system messages is sent with one system
\* field holding all their contents in order, and with no system-role
\* message in the message sequence.
C21_SystemMerged ==
    (Translated /\ SystemContents # <<>>) =>
        /\ mBody.system = Merged(SystemContents)
        /\ NoSystemTurn

\* what does hold: two or more system messages are merged, and the message
\* sequence never has a system turn
SeveralSystemMerged ==
    Translated =>
        /\ Len(SystemContents) > 1 => mBody.system = Merged(SystemContents)
        /\ NoSystemTurn

\* the functions a request declares: those of its tools, else its functions
DeclaredTools ==
    IF mRequest.tools # <<>>
    THEN [k \in 1..Len(mRequest.tools[1]) |->
            LET tool == mRequest.tools[1][k]
            IN  IF tool.function # <<>>
                THEN [name |-> tool.function[1].name,
                      description |-> tool.function[1].description,
                      input_schema |-> tool.function[1].parameters]
                ELSE [name |-> tool.name, description |-> tool.description,
                      input_schema |-> tool.input_schema]]
    ELSE [k \in 1..Len(mRequest.functions[1]) |->
            LET fn == mRequest.functions[1][k]
            IN  [name |-> fn.name, description |-> fn.description,
                 input_schema |-> fn.parameters]]

Declares == mRequest.tools # <<>> \/ mRequest.functions # <<>>

\* C22: for a request with tools or legacy functions the transformation does
\* not fail, and the request sent has one declaration per declared function,
\* in order, with its name, its description and its schema as input_schema.
C22_ToolsDeclared ==
    (mBody.done /\ mBody.threw # "SyntaxError" /\ Declares) =>
        /\ mBody.threw = "none"
        /\ mBody.tools = <<DeclaredTools>>

\* what does hold: the same for requests that carry tools
ToolsDeclaredFromTools ==
    (mBody.done /\ mBody.threw # "SyntaxError" /\ mRequest.tools # <<>>) =>
        /\ mBody.threw = "none"
        /\ mBody.tools = <<DeclaredTools>>

\* the turn at k of the vendor sequence is the turn of message m, followed by
\* its tool-result turn if m carries a function_call_result, and its
\* tool-use block is on that turn or the next if m carries a function_call
TurnOf(m, turns, k) ==
    /\ k <= Len(turns)
    /\ turns[k].role = m.role
    /\ turns[k].content = m.content
    /\ m.function_call_result # <<>> =>
          /\ k + 1 <= Len(turns)
          /\ turns[k + 1].role = "tool"
          /\ turns[k + 1].name = m.function_call_result[1].name
          /\ turns[k + 1].content = m.function_call_result[1].content
    /\ m.function_call # <<>> =>
          \E j \in {k, k + 1} :
              /\ j <= Len(turns)
              /\ turns[j].role = "assistant"
              /\ Len(turns[j].blocks) = 1
              /\ turns[j].blocks[1].type = "tool_use"
              /\ turns[j].blocks[1].name = m.function_call[1].name

\* the messages have their turns in the vendor sequence, in their order
RECURSIVE InOrder(_, _)
InOrder(msgs, turns) ==
    IF msgs = <<>> THEN TRUE
    ELSE \E k \in 1..Len(turns) :
            /\ TurnOf(Head(msgs), turns, k)
            /\ InOrder(Tail(msgs), SubSeq(turns, k + 1, Len(turns)))

NonSystem == SelectSeq(mRequest.messages, LAMBDA m : m.role # "system")

\* C26: every non-system message (user, assistant, tool) has its turn in the
\* vendor sequence, in the original order; a function_call is an inline
\* tool-use block of an assistant turn and a function_call_result a separate
\* tool turn right after the turn it belongs to.
C26_EveryTurnKept == Translated => InOrder(NonSystem, mBody.messages)

UserAndAssistant == SelectSeq(mRequest.messages, LAMBDA m : m.role \in {"user", "assistant"})

\* what does hold: the same for the user and assistant messages
UserAndAssistantKept == Translated => InOrder(UserAndAssistant, mBody.messages)

\* the function_call the vendor's response gives back for a tool-use block
BackFrom(block) ==
    convertResponseToOpenAIFormat(
        [array |-> TRUE, content |-> <<block>>, stop_reason |-> "tool_use"]).function_call

\* the turn that carries the tool-use block of the k-th function call
ToolUseTurns == SelectSeq(mBody.messages, LAMBDA t : t.blocks # <<>>)

FunctionCalls == SelectSeq(mRequest.messages,
                           LAMBDA m : m.role = "assistant" /\ m.function_call # <<>>)

\* C23: the translation keeps the relative order of the messages, and a
\* function_call (n, a) translated to a tool-use block and back from a
\* response carrying that block is a function_call with name n and arguments
\* that parse to what a parses to.
C23_RoundTrip ==
    Translated =>
        /\ InOrder(UserAndAssistant, mBody.messages)
        /\ Len(ToolUseTurns) = Len(FunctionCalls)
        /\ \A k \in 1..Len(FunctionCalls) :
              LET sentCall == FunctionCalls[k].function_call[1]
                  back == BackFrom(ToolUseTurns[k].blocks[1])
              IN  /\ JSONparseObject(sentCall.arguments).ok
                  /\ Len(back) = 1
                  /\ back[1].name = sentCall.name
                  /\ JSONparseObject(back[1].arguments).ok
                  /\ JSONparseObject(back[1].arguments).value
                        = JSONparseObject(sentCall.arguments).value

\* a user turn, then a function call whose arguments come back re-serialized
C23_Witness ==
    /\ Translated
    /\ Len(mRequest.messages) = 3
    /\ mRequest.messages[1].role = "user"
    /\ mRequest.messages[2].function_call # <<>>
    /\ mRequest.messages[2].function_call[1].arguments = SpacedArguments
    /\ mRequest.messages[3].role = "user"
    /\ Len(ToolUseTurns) = 1
    /\ BackFrom(ToolUseTurns[1].blocks[1]) =
          <<[name |-> "get_weather", arguments |-> CompactArguments]>>

----------------------------------------------------------------------------
(* The mandatory max_tokens of AnthropicProvider, under SpecTransform *)

\* a request of the Anthropic adapter whose additional_params leave
\* max_tokens alone
PlainAnthropicRequest ==
    /\ tBody.sent
    /\ tAdapter = "Anthropic"
    /\ tOptions.additional_params["max_tokens"] = Absent

\* C24: every request the Anthropic adapter sends carries max_tokens: the
\* request's value when the request sets one, 2048 when it does not.
C24_MaxTokens ==
    PlainAnthropicRequest =>
        /\ tBody.params["max_tokens"] # Absent
        /\ tBody.params["max_tokens"] =
              IF RequestSets("max_tokens") THEN tOptions.params["max_tokens"]
              ELSE DefaultMaxTokens

\* what does hold: max_tokens is always sent, with the request's value when
\* that value is not 0, and 2048 when the request has none
MaxTokensAlwaysSent ==
    PlainAnthropicRequest =>
        /\ tBody.params["max_tokens"] # Absent
        /\ tOptions.params["max_tokens"] = "requested" => tBody.params["max_tokens"] = "requested"
        /\ ~RequestSets("max_tokens") => tBody.params["max_tokens"] = DefaultMaxTokens

----------------------------------------------------------------------------
(* Responses of several content blocks, under SpecConvert *)

Texts == {k \in 1..Len(vResponse.content) : vResponse.content[k].type = "text"}

FirstOf(S) == CHOOSE k \in S : \A j \in S : k <= j

LastOf(S) == CHOOSE k \in S : \A j \in S : j <= k

\* C27: of several content blocks, the first text block gives the content
\* (where the message has content at all, that is without a tool
\* invocation) and the last tool-use block gives function_call.
C27_FirstTextLastToolUse ==
    (vConverted.done /\ vResponse.array) =>
        /\ (Texts # {} /\ ToolUses = {}) =>
              vConverted.content = vResponse.content[FirstOf(Texts)].text
        /\ ToolUses # {} =>
              vConverted.function_call = <<CallOf(vResponse.content[LastOf(ToolUses)])>>

\* what does hold: the last text block gives the content, and the last
\* tool-use block function_call
LastTextLastToolUse ==
    (vConverted.done /\ vResponse.array) =>
        /\ (Texts # {} /\ ToolUses = {}) =>
              vConverted.content = vResponse.content[LastOf(Texts)].text
        /\ ToolUses # {} =>
              vConverted.function_call = <<CallOf(vResponse.content[LastOf(ToolUses)])>>

----------------------------------------------------------------------------
(* Properties of the converted stream, under SpecStream *)

OneCanonicalChunk(entry) ==
    /\ Len(entry.chunks) = 1
    /\ entry.chunks[1].object = "chat.completion.chunk"
    /\ Len(entry.chunks[1].choices) = 1
    /\ entry.chunks[1].choices[1].index = 0

Finishes(entry) == entry.chunks[1].choices[1].finish_reason # NullReason

SignalsCompletion(event) == event.type \in {"content_block_stop", "message_stop"}

\* C28: every event of an Anthropic stream gives exactly one canonical chunk
\* with one choice of index 0, and the chunk's finish_reason is non-null
\* only for content_block_stop and message_stop.
C28_FinishOnlyOnCompletion ==
    \A k \in 1..Len(sChunks) :
        /\ OneCanonicalChunk(sChunks[k])
        /\ Finishes(sChunks[k]) => SignalsCompletion(sChunks[k].event)

ToolUseDelta(event) ==
    /\ event.type = "content_block_delta"
    /\ event.delta[1].type = "tool_use"

\* what does hold: one chunk per event, finishing on the completion events
\* and on the tool-use deltas
FinishOnCompletionOrToolUse ==
    \A k \in 1..Len(sChunks) :
        /\ OneCanonicalChunk(sChunks[k])
        /\ Finishes(sChunks[k]) <=>
              (SignalsCompletion(sChunks[k].event) \/ ToolUseDelta(sChunks[k].event))

----------------------------------------------------------------------------
(* The caller's request object, under SpecCaller *)

\* C29: during and after completion or streamCompletion, returned or thrown,
\* whatever the adapter, the object the caller passed has the model
\* identifier and the messages sequence it was built with.
C29_RequestUntouched ==
    cCall.phase # "idle" =>
        /\ heap[cCall.request].model = cCall.asked.model
        /\ heap[cCall.request].messages = cCall.asked.messages

\* a completion through AnthropicProvider with two system messages and a
\* prefixed identifier: the adapter's options have lost both, the caller's
\* object neither
C29_Witness ==
    /\ cCall.phase \in {"returned", "thrown"}
    /\ cCall.adapter = "Anthropic"
    /\ cCall.op = "completion"
    /\ cCall.asked.model = <<"openai", Sep, "claude-">>
    /\ cCall.asked.messages = <<"system", "user", "system">>
    /\ heap[cCall.passed].model = <<"claude-">>
    /\ heap[cCall.passed].messages = <<"user">>
    /\ heap[cCall.request] = cCall.asked

====
